---- MODULE Spec2Model ----
(***************************************************************************)
(* Sandbox lifecycle orchestrator of the repository.                       *)
(*                                                                         *)
(* Part I   Boot Manager: bootWebContainer / attemptBoot /                 *)
(*          teardownWebContainer (src/src/utils/webcontainer.ts) and the   *)
(*          Execution Timer of the timed variant (src/unnamed/part_001).   *)
(*                                                                         *)
(* Part II  Workflow Orchestrator and Readiness Detector: runFullWorkflow, *)
(*          startDevServer, serveStaticSite, handleServerReady             *)
(*          (src/src/utils/webcontainer.ts).                               *)
(*                                                                         *)
(* Part III The same orchestrator as the deploy function carries it        *)
(*          (src/supabase/functions/railway-deploy/index.ts): its          *)
(*          startDevServer listens for server-ready and port events and    *)
(*          never reads readiness from the output.                         *)
(*                                                                         *)
(* JavaScript is single-threaded: every action below is one macrotask (a   *)
(* call from the UI, a timer callback, a sandbox event, a promise          *)
(* settlement) together with the microtasks it triggers.                   *)
(***************************************************************************)
EXTENDS Integers, Sequences, FiniteSets, TLC

\* ------------------------------------------------------------------ bounds
MaxCalls       == 2   \* bootWebContainer() calls in one behaviour
MaxTeardowns   == 2   \* teardownWebContainer() calls in one behaviour
MaxTimerStarts == 1   \* startExecutionTimer() calls in one behaviour
MaxChunks      == 2   \* output chunks the run process writes in one run
MaxEvents      == 2   \* server-ready events the sandbox emits in one run
MaxPortEvents  == 2   \* port events the sandbox emits in one run
MaxLaunches    == 2   \* runFullWorkflow() launches in one behaviour
MaxHints       == 2   \* ticks of stallHintInterval in one command call
MaxFiles        == 13    \* length of the longest file list handed to buildFileSystemTree
MaxWrites       == 3     \* write() calls on one buffered output
MaxOutput      == 1   \* appendTerminalOutput() calls between two resets of the store

\* ------------------------------------------------------- program constants
NoHandle  == 0        \* webcontainerInstance = null
NoPromise == 0        \* bootPromise = null
NoTimer   == 0        \* executionTimer = null
RetryLimitMain  == 3  \* "attempt < 3" in webcontainer.ts
RetryLimitTimed == 2  \* "attempt < 2" in part_001 and in railway-deploy/index.ts
DefaultPort     == 3000  \* the port of the fallback URL when the output names none

\* The copies of the orchestrator. The Boot Manager of railway-deploy/index.ts is
\* that of part_001 without the Execution Timer.
Variants == {"webcontainer.ts", "part_001", "railway-deploy/index.ts"}

\* Messages of the errors a boot attempt can fail with.
TimerError == "Boot timed out"
BootErrors == {"Unable to boot", "Request timed out", "SharedArrayBuffer is not defined"}
FatalBootError ==
  "Boot timed out. Please reload or check if your browser supports WebContainers (Chrome/Edge required)."

\* error.message.includes("timed out")
IncludesTimedOut(msg) == msg \in {"Boot timed out", "Request timed out", FatalBootError}

VARIABLES
  variant,               \* which source file of the orchestrator is loaded
  webcontainerInstance,  \* the stored handle, NoHandle for null
  bootPromise,           \* the stored boot promise (an index of chains), NoPromise for null
  executionTimer,        \* the stored timer id, NoTimer for null
  armedTimers,           \* ids of the execution timers pending in the event loop
  timerStarts,           \* number of startExecutionTimer() calls so far
  chains,                \* the promises returned by attemptBoot(), in creation order
  boots,                 \* the underlying WebContainer.boot() calls, in call order
  calls,                 \* the bootWebContainer() calls, in call order
  live,                  \* handles produced by a boot and not yet released
  teardownLog,           \* the handle.teardown() invocations, in order
  teardowns,             \* number of teardownWebContainer() calls so far
  project,               \* the launched project: its kind and its mounted manifest
  pc,                    \* where runFullWorkflow (and the function it awaits) stands
  myCall,                \* the bootWebContainer() call of the run, an index of calls
  container,             \* the handle the run works with
  cb,                    \* the callbacks delivered to the caller, in order
  serverReadyFired,      \* the latch of handleServerReady
  serverReadyTimeout,    \* the stall timer: "unset", "armed", "cleared" or "fired"
  graceTimers,           \* pending fallback timers, oldest first: the port and the chunk of each
  graceFired,            \* number of fallback timers that have fired
  proc,                  \* the run process: "none", "running", "exited" (code 0) or "failed"
  chunks,                \* number of output chunks the run process has written
  events,                \* the URLs of the server-ready events emitted, in order
  portReadyTimeout,      \* the URL the pending port timer would report, "none" without one
  portEvents,            \* number of port events the sandbox has emitted
  spawned,               \* the run command as spawned: its arguments and environment
  containerStatus,       \* the store: the status the workspace shows
  terminalOutput,        \* the store: the terminal text, as the chunks appended to it
  previewUrl,            \* the store: the preview URL, "null" for null
  projectInfo,           \* the store: the detected project, "null" for null
  view,                  \* the store: "landing" or "workspace"
  backs,                 \* the handleBack() calls: the bootWebContainer() calls made before each
  cmd,                   \* one runCommandWithTimeout() call: its locals, timers and process
  tree,                  \* the mounted tree: which directories exist and the files they hold
  uniqueDirs,            \* the directories server.js was generated for, <<>> before that
  request,               \* the last request the generated server received
  response,              \* its response to that request
  detector,              \* which source file of detectProjectType is loaded
  files,                 \* the file list handed to detectProjectType
  detected,              \* the type it returned, "none" before the call
  packageJson,           \* the manifest as cat package.json finds it: its exit code, text and dependencies
  packageJsonInfo,       \* what readPackageJson returned for it, pending before the call
  repoFiles,             \* the file list handed to buildFileSystemTree
  fetched,               \* the fetchFileContent call of each included file: unstarted, inflight, ok or failed
  batchStart,            \* the loop variable i of buildFileSystemTree
  completed,             \* its counter of settled files
  progress,              \* the onProgress calls, in order: current and total of each
  reports,               \* per included file, the number of onProgress calls that named it
  fileSystemTree,        \* the tree under construction, as its entries
  built,                 \* whether buildFileSystemTree has returned the tree
  env,                   \* the secrets of the deploy relay: whether the API token and the workspace id are configured
  body,                  \* the request the relay serves: its action and its githubUrl
  relayStep,             \* 0 before the request, the number of the awaited upstream request, Responded at the end
  retried,               \* whether the awaited upstream request is the retry with the team token header
  upstreamFetches,       \* number of fetch calls to the third-party API so far
  relayResponse,         \* the response of the relay: its status and its error text, status 0 before it
  buffer,                \* createBufferedOutput: the text written and not yet delivered
  timer,                 \* createBufferedOutput: the stored flush timer id, NoTimer for null
  pendingFlushes,        \* the flush timers pending in the event loop
  writes,                \* the chunks passed to write(), in order
  outputs,               \* the strings passed to the output callback, in order
  earlierLatches,        \* serverReadyFired of each earlier launch whose server-ready listener is on the handle
  earlierCb,             \* callbacks delivered by the listeners of earlier launches
  interrupted,           \* boot chains that were pending when teardownWebContainer() was called
  launch,                \* number of the runFullWorkflow() launch in progress
  timerLaunch,           \* the launch that armed the stored Execution Timer, 0 for none
  expiries               \* the Execution Timer expiries, in order

bootVars == <<variant, webcontainerInstance, bootPromise, executionTimer, armedTimers,
              timerStarts, chains, boots, calls, live, teardownLog, teardowns>>

runVars == <<project, pc, myCall, container, cb, serverReadyFired, serverReadyTimeout,
             graceTimers, graceFired, proc, chunks, events>>

railwayVars == <<portReadyTimeout, portEvents, spawned>>

storeVars == <<containerStatus, terminalOutput, previewUrl, projectInfo, view, backs>>

commandVars == <<cmd>>

staticVars == <<tree, uniqueDirs, request, response>>

detectVars == <<detector, files, detected>>

manifestVars == <<packageJson, packageJsonInfo>>

treeVars == <<repoFiles, fetched, batchStart, completed, progress, reports, fileSystemTree, built>>

relayVars == <<env, body, relayStep, retried, upstreamFetches, relayResponse>>

bufferVars == <<buffer, timer, pendingFlushes, writes, outputs>>

listenerVars == <<earlierLatches, earlierCb>>

teardownVars == <<interrupted>>

timedVars == <<launch, timerLaunch, expiries>>

vars == <<bootVars, runVars, railwayVars, storeVars, commandVars, staticVars, detectVars,
          manifestVars,
          treeVars,
          relayVars,
          bufferVars,
          listenerVars,
          teardownVars,
          timedVars>>

RetryLimit == IF variant = "webcontainer.ts" THEN RetryLimitMain ELSE RetryLimitTimed

\* The boots made on behalf of chain ch.
BootsOf(ch) == {b \in DOMAIN boots : boots[b].chain = ch}

\* The calls whose result is the promise of chain ch.
CallsOf(ch) == {c \in DOMAIN calls : calls[c].chain = ch}

\* ------------------------------------------------------------ Boot Manager

InitBoot ==
  /\ webcontainerInstance = NoHandle
  /\ bootPromise = NoPromise
  /\ executionTimer = NoTimer
  /\ armedTimers = {}
  /\ timerStarts = 0
  /\ chains = <<>>
  /\ boots = <<>>
  /\ calls = <<>>
  /\ live = {}
  /\ teardownLog = <<>>
  /\ teardowns = 0

\* if (webcontainerInstance)
ReturnsExisting(inst) == inst # NoHandle

\* if (bootPromise)
JoinsInFlight_Never(bp) == FALSE
JoinsInFlight(bp) == bp # NoPromise

\* attempt < 3 && error instanceof Error && error.message.includes("timed out")
ShouldRetry_OffByOne(attempt, msg) == attempt <= RetryLimit /\ IncludesTimedOut(msg)
ShouldRetry(attempt, msg) == attempt < RetryLimit /\ IncludesTimedOut(msg)

\* bootPromise = null in the catch of bootWebContainer
PromiseAfterFailure_Kept == bootPromise
PromiseAfterFailure == NoPromise

\* bootPromise = null in teardownWebContainer
PromiseAfterTeardown_Kept == bootPromise
PromiseAfterTeardown == NoPromise

\* bootPromise = attemptBoot(): a new chain whose first attempt calls
\* WebContainer.boot(); the caller awaits it as its owner.
StartChain ==
  LET ch == Len(chains) + 1 IN
  /\ chains' = Append(chains, [state |-> "pending", attempt |-> 1, handle |-> NoHandle,
                               error |-> "none", failures |-> <<>>])
  /\ boots' = Append(boots, [chain |-> ch, attempt |-> 1, state |-> "pending"])
  /\ bootPromise' = ch
  /\ calls' = Append(calls, [role |-> "owner", chain |-> ch, state |-> "pending",
                             handle |-> NoHandle, error |-> "none"])
  /\ UNCHANGED <<variant, webcontainerInstance, executionTimer, armedTimers, timerStarts,
                 live, teardownLog, teardowns>>

\* bootWebContainer() while a handle is stored: return it.
ReturnExisting_FallsThrough ==
  /\ Len(calls) < MaxCalls
  /\ ReturnsExisting(webcontainerInstance)
  /\ StartChain
ReturnExisting ==
  /\ Len(calls) < MaxCalls
  /\ ReturnsExisting(webcontainerInstance)
  /\ calls' = Append(calls, [role |-> "existing", chain |-> NoPromise, state |-> "fulfilled",
                             handle |-> webcontainerInstance, error |-> "none"])
  /\ UNCHANGED <<variant, webcontainerInstance, bootPromise, executionTimer, armedTimers,
                 timerStarts, chains, boots, live, teardownLog, teardowns>>

\* bootWebContainer() while a boot promise is stored: return that promise.
JoinInFlight ==
  /\ Len(calls) < MaxCalls
  /\ ~ReturnsExisting(webcontainerInstance)
  /\ JoinsInFlight(bootPromise)
  /\ calls' = Append(calls, [role |-> "joiner", chain |-> bootPromise,
                             state |-> chains[bootPromise].state,
                             handle |-> chains[bootPromise].handle,
                             error |-> chains[bootPromise].error])
  /\ UNCHANGED <<variant, webcontainerInstance, bootPromise, executionTimer, armedTimers,
                 timerStarts, chains, boots, live, teardownLog, teardowns>>

\* bootWebContainer() with neither: start attemptBoot() and await it.
StartBoot ==
  /\ Len(calls) < MaxCalls
  /\ ~ReturnsExisting(webcontainerInstance)
  /\ ~JoinsInFlight(bootPromise)
  /\ StartChain

\* The calls after chain ch settled with (st, h, err): every caller awaiting the
\* promise receives its outcome.
Delivered(ch, st, h, err) ==
  [c \in DOMAIN calls |->
     IF calls[c].chain = ch /\ calls[c].state = "pending"
     THEN [calls[c] EXCEPT !.state = st, !.handle = h, !.error = err]
     ELSE calls[c]]

\* The boot of the current attempt of a pending chain resolves with a fresh
\* handle: attemptBoot returns it, and the owner stores it.
BootResolves(b) ==
  LET ch == boots[b].chain IN
  /\ boots[b].state = "pending"
  /\ chains[ch].state = "pending"
  /\ chains[ch].attempt = boots[b].attempt
  /\ boots' = [boots EXCEPT ![b].state = "resolved"]
  /\ live' = live \cup {b}
  /\ chains' = [chains EXCEPT ![ch].state = "fulfilled", ![ch].handle = b]
  /\ calls' = Delivered(ch, "fulfilled", b, "none")
  /\ webcontainerInstance' = b
  /\ UNCHANGED <<variant, bootPromise, executionTimer, armedTimers, timerStarts,
                 teardownLog, teardowns>>

\* The boot of an attempt that already lost its race against the timeout
\* resolves: the sandbox exists, and nothing in the program refers to it.
LateBootResolves(b) ==
  LET ch == boots[b].chain IN
  /\ boots[b].state = "pending"
  /\ ~(chains[ch].state = "pending" /\ chains[ch].attempt = boots[b].attempt)
  /\ boots' = [boots EXCEPT ![b].state = "resolved"]
  /\ live' = live \cup {b}
  /\ UNCHANGED <<variant, webcontainerInstance, bootPromise, executionTimer, armedTimers,
                 timerStarts, chains, calls, teardownLog, teardowns>>

\* The catch of attemptBoot for the current attempt of chain ch failing with
\* msg, bs being the boots after the failure: retry with a new boot, or throw
\* the fatal error, which the owner of the chain catches.
attemptBootFailed(ch, msg, bs) ==
  IF ShouldRetry(chains[ch].attempt, msg)
  THEN /\ chains' = [chains EXCEPT ![ch].attempt = @ + 1,
                                   ![ch].failures = Append(@, msg)]
       /\ boots' = Append(bs, [chain |-> ch, attempt |-> chains[ch].attempt + 1,
                               state |-> "pending"])
       /\ UNCHANGED <<bootPromise, calls>>
  ELSE /\ chains' = [chains EXCEPT ![ch].state = "rejected", ![ch].error = FatalBootError,
                                   ![ch].failures = Append(@, msg)]
       /\ boots' = bs
       /\ calls' = Delivered(ch, "rejected", NoHandle, FatalBootError)
       /\ bootPromise' = PromiseAfterFailure

\* The timeout of the current attempt of chain ch fires before its boot
\* settled; the boot itself goes on.
BootTimesOut(ch) ==
  /\ chains[ch].state = "pending"
  /\ attemptBootFailed(ch, TimerError, boots)
  /\ UNCHANGED <<variant, webcontainerInstance, executionTimer, armedTimers, timerStarts,
                 live, teardownLog, teardowns>>

\* The boot of the current attempt rejects with msg.
BootRejects(b, msg) ==
  LET ch == boots[b].chain IN
  /\ boots[b].state = "pending"
  /\ chains[ch].state = "pending"
  /\ chains[ch].attempt = boots[b].attempt
  /\ attemptBootFailed(ch, msg, [boots EXCEPT ![b].state = "rejected"])
  /\ UNCHANGED <<variant, webcontainerInstance, executionTimer, armedTimers, timerStarts,
                 live, teardownLog, teardowns>>

\* clearExecutionTimer(): the timer ids armed after it, given the stored id.
clearExecutionTimer_Skipped(armed) == armed
clearExecutionTimer(armed) == IF executionTimer # NoTimer THEN armed \ {executionTimer} ELSE armed

\* if (webcontainerInstance) { webcontainerInstance.teardown(); ... } of
\* teardownWebContainer().
releaseHandle ==
  IF webcontainerInstance # NoHandle
  THEN /\ teardownLog' = Append(teardownLog, [handle |-> webcontainerInstance,
                                              timer |-> executionTimer,
                                              delivered |-> Len(cb)])
       /\ live' = live \ {webcontainerInstance}
       /\ webcontainerInstance' = NoHandle
       /\ bootPromise' = PromiseAfterTeardown
  ELSE UNCHANGED <<teardownLog, live, webcontainerInstance, bootPromise>>

\* teardownWebContainer() called by the workspace.
teardownWebContainer ==
  /\ teardowns < MaxTeardowns
  /\ teardowns' = teardowns + 1
  /\ armedTimers' = clearExecutionTimer(armedTimers)
  /\ executionTimer' = NoTimer
  /\ releaseHandle
  /\ UNCHANGED <<variant, timerStarts, chains, boots, calls>>

\* startExecutionTimer(), which runFullWorkflow of the timed variant calls once
\* it holds a booted container.
startExecutionTimer ==
  /\ variant = "part_001"
  /\ timerStarts < MaxTimerStarts
  /\ \E c \in DOMAIN calls : calls[c].state = "fulfilled"
  /\ timerStarts' = timerStarts + 1
  /\ executionTimer' = timerStarts + 1
  /\ armedTimers' = clearExecutionTimer(armedTimers) \cup {timerStarts + 1}
  /\ UNCHANGED <<variant, webcontainerInstance, bootPromise, chains, boots, calls, live,
                 teardownLog, teardowns>>

\* The execution timer t fires: its callback calls teardownWebContainer().
ExecutionTimerExpires(t) ==
  /\ t \in armedTimers
  /\ teardowns < MaxTeardowns
  /\ teardowns' = teardowns + 1
  /\ armedTimers' = clearExecutionTimer(armedTimers \ {t})
  /\ executionTimer' = NoTimer
  /\ releaseHandle
  /\ UNCHANGED <<variant, timerStarts, chains, boots, calls>>

\* initialState of the store, as far as the workspace header uses it.
initialState ==
  /\ containerStatus = "idle"
  /\ terminalOutput = <<>>
  /\ previewUrl = "null"
  /\ projectInfo = "null"
  /\ view = "landing"

\* No request was made.
NoRequest == [method |-> "", name |-> "", ext |-> ""]

\* No run command was spawned.
NoSpawn == [args |-> <<>>, env |-> [HOST |-> "", HOSTNAME |-> ""]]

\* No runCommandWithTimeout() call was made.
NoCommand ==
  [state |-> "idle", options |-> [label |-> "undefined", timeoutMs |-> -1],
   result |-> -1, error |-> [error |-> "none", label |-> "", seconds |-> 0], settled |-> 0,
   proc |-> "none", exitCode |-> -1, kills |-> 0,
   timeoutTimer |-> FALSE, noOutputHintTimer |-> FALSE, stallHintInterval |-> FALSE,
   outputSeen |-> FALSE, buffer |-> 0, timer |-> FALSE, delivered |-> 0,
   written |-> 0, hints |-> 0]

\* No teardown was called during a boot.
NoInterruptedBoot == interrupted = {}

\* No earlier launch left a listener on the handle.
NoEarlierRun ==
  /\ earlierLatches = <<>>
  /\ earlierCb = <<>>

\* No buffered output exists.
NoBufferedOutput ==
  /\ buffer = ""
  /\ timer = NoTimer
  /\ pendingFlushes = {}
  /\ writes = <<>>
  /\ outputs = <<>>

\* The deploy relay has served no request.
NoRelayRequest ==
  /\ env = [railwayToken |-> FALSE, workspaceId |-> FALSE]
  /\ body = [action |-> "none", given |-> FALSE, long |-> FALSE, host |-> "",
             owner |-> <<>>, repo |-> <<>>, projectId |-> FALSE]
  /\ relayStep = 0
  /\ retried = FALSE
  /\ upstreamFetches = 0
  /\ relayResponse = [status |-> 0, error |-> ""]

\* buildFileSystemTree has not been called.
NoTreeBuild ==
  /\ repoFiles = <<>>
  /\ fetched = <<>>
  /\ batchStart = 0
  /\ completed = 0
  /\ progress = <<>>
  /\ reports = <<>>
  /\ fileSystemTree = {}
  /\ built = FALSE

\* readPackageJson has not been called.
NoManifestRead ==
  /\ packageJson = [spawn |-> "ok", exitCode |-> 1, parses |-> FALSE,
                    dependencies |-> {}, devDependencies |-> {}]
  /\ packageJsonInfo = [state |-> "pending", framework |-> ""]

\* No file list has been classified.
NoDetection ==
  /\ detector = "projectDetection.ts"
  /\ files = {}
  /\ detected = "none"

\* The parts of the program a specification leaves alone start here: the store
\* in its initial state, no command call, the first launch, no timer armed.
InitElsewhere ==
  /\ initialState
  /\ tree = [dir \in {"."} |-> [exists |-> TRUE, files |-> {}]]
  /\ uniqueDirs = <<>>
  /\ request = NoRequest
  /\ response = [status |-> 404, dir |-> "", file |-> "", by |-> "404"]
  /\ NoDetection
  /\ NoInterruptedBoot
  /\ NoEarlierRun
  /\ NoBufferedOutput
  /\ NoRelayRequest
  /\ NoTreeBuild
  /\ NoManifestRead
  /\ backs = <<>>
  /\ cmd = NoCommand
  /\ launch = 1
  /\ timerLaunch = 0
  /\ expiries = <<>>

\* The step involves neither the store, nor a command call, nor the launch history.
Elsewhere == UNCHANGED <<storeVars, commandVars, staticVars, detectVars, teardownVars, listenerVars, bufferVars, relayVars, treeVars, manifestVars, timedVars>>

\* No workflow is launched: the Boot Manager is driven by its callers alone.
NoRun ==
  /\ project = [type |-> "none", present |-> FALSE, scripts |-> {}, specs |-> {}]
  /\ pc = "idle"
  /\ myCall = 0
  /\ container = NoHandle
  /\ cb = <<>>
  /\ serverReadyFired = FALSE
  /\ serverReadyTimeout = "unset"
  /\ graceTimers = <<>>
  /\ graceFired = 0
  /\ proc = "none"
  /\ chunks = 0
  /\ events = <<>>
  /\ portReadyTimeout = "none"
  /\ portEvents = 0
  /\ spawned = NoSpawn

\* The workflow is not running.
NoWorkflow == UNCHANGED <<runVars, railwayVars, storeVars, commandVars, staticVars, detectVars, teardownVars, listenerVars, bufferVars, relayVars, treeVars, manifestVars, timedVars>>

NextBoot ==
  \/ ReturnExisting /\ NoWorkflow
  \/ JoinInFlight /\ NoWorkflow
  \/ StartBoot /\ NoWorkflow
  \/ \E b \in DOMAIN boots : BootResolves(b) /\ NoWorkflow
  \/ \E b \in DOMAIN boots : LateBootResolves(b) /\ NoWorkflow
  \/ \E ch \in DOMAIN chains : BootTimesOut(ch) /\ NoWorkflow
  \/ \E b \in DOMAIN boots, msg \in BootErrors : BootRejects(b, msg) /\ NoWorkflow
  \/ teardownWebContainer /\ NoWorkflow
  \/ startExecutionTimer /\ NoWorkflow
  \/ \E t \in armedTimers : ExecutionTimerExpires(t) /\ NoWorkflow

\* The module is loaded and no workflow was launched.
InitModule ==
  /\ variant \in Variants \ {"railway-deploy/index.ts"}
  /\ InitBoot
  /\ NoRun
  /\ InitElsewhere

Spec == InitModule /\ [][NextBoot]_vars

\* ------------------------------------------- Part II: workflow and readiness

\* The launched projects: the kind the classifier gave, whether the mounted tree
\* has a package.json, its scripts and its dependency version specs.
Projects ==
  { [type |-> "nodejs", present |-> TRUE,  scripts |-> {"dev", "build"}, specs |-> {"^5.0.0"}],
    [type |-> "nodejs", present |-> TRUE,  scripts |-> {"lint"},         specs |-> {"^5.0.0"}],
    [type |-> "nodejs", present |-> TRUE,  scripts |-> {"start"},
     specs |-> {"^5.0.0", "git+ssh://git@github.com/acme/lib.git"}],
    [type |-> "nodejs", present |-> TRUE,  scripts |-> {"dev"},
     specs |-> {"ssh://git.acme.io/lib.git"}],
    [type |-> "nodejs", present |-> TRUE,  scripts |-> {"dev"},
     specs |-> {"^5.0.0", "git@github.com:acme/lib.git"}],
    [type |-> "static", present |-> FALSE, scripts |-> {},               specs |-> {}],
    [type |-> "python", present |-> FALSE, scripts |-> {},               specs |-> {}] }

\* The chunks the run process may write, by what the patterns look at: the
\* host:port it names ("localhost:5173"), the N of "listening on N" or
\* "listening on port N", whether it has one of the banner phrasings ("server
\* started", "ready in 300", "Local: http", "-> Local"), and whether it
\* contains "available on".
OutputChunks ==
  { [host |-> "none",      hostPort |-> 0,    listenPort |-> 0,    banner |-> FALSE,
     availableOn |-> FALSE],
    [host |-> "localhost", hostPort |-> 5173, listenPort |-> 0,    banner |-> TRUE,
     availableOn |-> FALSE],
    [host |-> "none",      hostPort |-> 0,    listenPort |-> 8080, banner |-> FALSE,
     availableOn |-> FALSE],
    [host |-> "localhost", hostPort |-> 3000, listenPort |-> 0,    banner |-> FALSE,
     availableOn |-> TRUE] }

\* The URLs the sandbox reports with its server-ready events.
EventUrls == {"https://k3x-5173.webcontainer.io", "https://k3x-3000.webcontainer.io"}

ExitCodes == {0, 1}

\* `http://localhost:${port}`
LocalhostUrl(port) ==
  CASE port = 3000 -> "http://localhost:3000"
    [] port = 5173 -> "http://localhost:5173"
    [] OTHER       -> "http://localhost:8080"

LocalhostUrls == {LocalhostUrl(3000), LocalhostUrl(5173), LocalhostUrl(8080)}

\* The callbacks of ContainerCallbacks, as entries of cb.
Status(s)    == [k |-> "status", v |-> s]
ReadyCb(url) == [k |-> "ready",  v |-> url]
ErrorCb(msg) == [k |-> "error",  v |-> msg]
Output(tag)  == [k |-> "output", v |-> tag]

InitRun ==
  /\ InitBoot
  /\ variant = "webcontainer.ts"
  /\ project \in Projects
  /\ pc = "idle"
  /\ myCall = 0
  /\ container = NoHandle
  /\ cb = <<>>
  /\ serverReadyFired = FALSE
  /\ serverReadyTimeout = "unset"
  /\ graceTimers = <<>>
  /\ graceFired = 0
  /\ proc = "none"
  /\ chunks = 0
  /\ events = <<>>
  /\ portReadyTimeout = "none"
  /\ portEvents = 0
  /\ spawned = NoSpawn
  /\ InitElsewhere

Runnable == project.type \in {"nodejs", "static"}

\* runFullWorkflow up to its await of bootWebContainer().
Launch ==
  /\ pc = "idle"
  /\ ReturnExisting \/ JoinInFlight \/ StartBoot
  /\ cb' = Append(cb, Status("booting"))
  /\ myCall' = Len(calls) + 1
  /\ pc' = "booting"
  /\ UNCHANGED <<project, container, serverReadyFired, serverReadyTimeout, graceTimers, graceFired,
                 proc, chunks, events>>

\* bootWebContainer() returned the handle: status mounting, then mountFiles.
Booted ==
  /\ pc = "booting"
  /\ calls[myCall].state = "fulfilled"
  /\ container' = calls[myCall].handle
  /\ cb' = Append(cb, Status("mounting"))
  /\ pc' = "mounting"
  /\ UNCHANGED <<bootVars, project, myCall, serverReadyFired, serverReadyTimeout,
                 graceTimers, graceFired, proc, chunks, events>>

\* message.includes("SharedArrayBuffer") and message.includes("boot") of the
\* catch of runFullWorkflow, for the messages that reach it.
IncludesSharedArrayBuffer(msg) == msg \in {"SharedArrayBuffer is not defined"}
IncludesBoot(msg) == msg \in {"Unable to boot"}

\* The catch of runFullWorkflow: onError with the message it picks, then status error.
WorkflowCatch_NoCallback(msg) == <<Status("error")>>
WorkflowCatch(msg) ==
  IF Runnable
  THEN <<ErrorCb(IF IncludesSharedArrayBuffer(msg)
                 THEN "WebContainers require Cross-Origin-Isolation headers. Please ensure the server is configured correctly."
                 ELSE IF IncludesBoot(msg)
                 THEN "Failed to boot WebContainer. This feature requires a modern browser with WebAssembly support."
                 ELSE msg),
         Status("error")>>
  ELSE <<ErrorCb(msg), Status("error")>>

\* bootWebContainer() rejected: the catch of runFullWorkflow.
BootFailed ==
  /\ pc = "booting"
  /\ calls[myCall].state = "rejected"
  /\ cb' = cb \o WorkflowCatch(calls[myCall].error)
  /\ pc' = "done"
  /\ UNCHANGED <<bootVars, project, myCall, container, serverReadyFired, serverReadyTimeout,
                 graceTimers, graceFired, proc, chunks, events>>

\* container.mount(files) rejected.
MountFails ==
  /\ pc = "mounting"
  /\ cb' = cb \o WorkflowCatch("Failed to mount files")
  /\ pc' = "done"
  /\ UNCHANGED <<bootVars, project, myCall, container, serverReadyFired, serverReadyTimeout,
                 graceTimers, graceFired, proc, chunks, events>>

\* container.mount(files) resolved: a browse-only project is ready, a static
\* one enters serveStaticSite, a nodejs one startDevServer.
Mounted ==
  /\ pc = "mounting"
  /\ IF ~Runnable
     THEN cb' = cb \o <<Output("code browsing only"), Status("ready")>> /\ pc' = "done"
     ELSE cb' = cb /\ pc' = (IF project.type = "static" THEN "static-probe" ELSE "preflight")
  /\ UNCHANGED <<bootVars, project, myCall, container, serverReadyFired, serverReadyTimeout,
                 graceTimers, graceFired, proc, chunks, events>>

\* value.startsWith("git+ssh://") || value.startsWith("ssh://") || value.includes("git@")
UnsupportedSpec_GitSshOnly(value) == value = "git+ssh://git@github.com/acme/lib.git"
UnsupportedSpec(value) ==
  value \in {"git+ssh://git@github.com/acme/lib.git", "ssh://git.acme.io/lib.git",
             "git@github.com:acme/lib.git"}

\* hasGitSshDependencies(pkg)
hasGitSshDependencies(pkg) == \E value \in pkg.specs : UnsupportedSpec(value)

\* startDevServer after readJsonFile: the preflight, then status installing and
\* the install command.
Preflight ==
  /\ pc = "preflight"
  /\ IF project.present /\ hasGitSshDependencies(project)
     THEN /\ cb' = cb \o <<Status("error"),
                           ErrorCb("This project uses git+ssh dependencies"),
                           Output("unsupported dependency source")>>
          /\ pc' = "done"
     ELSE /\ cb' = Append(cb, Status("installing"))
          /\ pc' = "installing"
  /\ UNCHANGED <<bootVars, project, myCall, container, serverReadyFired, serverReadyTimeout,
                 graceTimers, graceFired, proc, chunks, events>>

\* findDevScript: the first of dev, start, serve, develop, watch the manifest
\* has, "" for null.
devScripts == <<"dev", "start", "serve", "develop", "watch">>
findDevScript(pkg) ==
  IF ~pkg.present \/ \A i \in DOMAIN devScripts : devScripts[i] \notin pkg.scripts
  THEN ""
  ELSE devScripts[CHOOSE i \in DOMAIN devScripts :
                    /\ devScripts[i] \in pkg.scripts
                    /\ \A j \in 1 .. (i - 1) : devScripts[j] \notin pkg.scripts]

\* The install command exited with code: a failure is reported, a success leads
\* to findDevScript, status running and the spawn of the run command.
InstallExits(code) ==
  /\ pc = "installing"
  /\ IF code # 0
     THEN /\ cb' = cb \o <<ErrorCb("Dependency install failed"), Status("error")>>
          /\ pc' = "done"
     ELSE IF findDevScript(project) = ""
     THEN /\ cb' = cb \o <<ErrorCb("No dev/start script found in package.json"),
                           Status("error")>>
          /\ pc' = "done"
     ELSE /\ cb' = Append(cb, Status("running"))
          /\ pc' = "spawning"
  /\ UNCHANGED <<bootVars, project, myCall, container, serverReadyFired, serverReadyTimeout,
                 graceTimers, graceFired, proc, chunks, events>>

\* runCommandWithTimeout rejected (its deadline elapsed, or the spawn failed):
\* the catch of startDevServer.
InstallThrows_Continues(msg) ==
  /\ pc = "installing"
  /\ cb' = cb \o <<ErrorCb(msg), Status("error"), Status("running")>>
  /\ pc' = "spawning"
  /\ UNCHANGED <<bootVars, project, myCall, container, serverReadyFired, serverReadyTimeout,
                 graceTimers, graceFired, proc, chunks, events>>
InstallThrows(msg) ==
  /\ pc = "installing"
  /\ cb' = cb \o <<ErrorCb(msg), Status("error")>>
  /\ pc' = "done"
  /\ UNCHANGED <<bootVars, project, myCall, container, serverReadyFired, serverReadyTimeout,
                 graceTimers, graceFired, proc, chunks, events>>

\* container.spawn of the run command rejected: the catch of startDevServer
\* (of serveStaticSite for a static project).
SpawnFails ==
  /\ pc = "spawning"
  /\ cb' = cb \o <<ErrorCb("Failed to spawn"), Status("error")>>
  /\ pc' = "done"
  /\ UNCHANGED <<bootVars, project, myCall, container, serverReadyFired, serverReadyTimeout,
                 graceTimers, graceFired, proc, chunks, events>>

\* The run command is spawned: the output pipe, the server-ready listener, the
\* stall timer and the exit handler are set up, and startDevServer returns.
Spawned ==
  /\ pc = "spawning"
  /\ proc' = "running"
  /\ serverReadyTimeout' = "armed"
  /\ pc' = "serving"
  /\ UNCHANGED <<bootVars, project, myCall, container, cb, serverReadyFired, graceTimers, graceFired,
                 chunks, events>>

\* serveStaticSite after probing the directories: status installing, the
\* server files are written and npm install is started.
StaticProbed ==
  /\ pc = "static-probe"
  /\ cb' = Append(cb, Status("installing"))
  /\ pc' = "static-install"
  /\ UNCHANGED <<bootVars, project, myCall, container, serverReadyFired, serverReadyTimeout,
                 graceTimers, graceFired, proc, chunks, events>>

\* fs.writeFile or the spawn of npm install rejected: the catch of serveStaticSite.
StaticInstallThrows ==
  /\ pc = "static-install"
  /\ cb' = cb \o <<ErrorCb("Failed to write file"), Status("error")>>
  /\ pc' = "done"
  /\ UNCHANGED <<bootVars, project, myCall, container, serverReadyFired, serverReadyTimeout,
                 graceTimers, graceFired, proc, chunks, events>>

\* npm install of the static server exited with code.
StaticInstallExits(code) ==
  /\ pc = "static-install"
  /\ IF code # 0
     THEN /\ cb' = cb \o <<ErrorCb("Failed to install static server dependencies."),
                           Status("error")>>
          /\ pc' = "done"
     ELSE /\ cb' = Append(cb, Status("running"))
          /\ pc' = "spawning"
  /\ UNCHANGED <<bootVars, project, myCall, container, serverReadyFired, serverReadyTimeout,
                 graceTimers, graceFired, proc, chunks, events>>

\* if (serverReadyFired) return;
LatchBlocks_Never(fired) == FALSE
LatchBlocks(fired) == fired

\* handleServerReady(url, port), log being the callbacks delivered before it.
handleServerReady_StatusOnly(log, url) ==
  IF LatchBlocks(serverReadyFired)
  THEN /\ cb' = log
       /\ UNCHANGED <<serverReadyFired, serverReadyTimeout>>
  ELSE /\ serverReadyFired' = TRUE
       /\ serverReadyTimeout' = IF serverReadyTimeout = "armed" THEN "cleared"
                                ELSE serverReadyTimeout
       /\ cb' = Append(log, Status("ready"))
handleServerReady(log, url) ==
  IF LatchBlocks(serverReadyFired)
  THEN /\ cb' = log
       /\ UNCHANGED <<serverReadyFired, serverReadyTimeout>>
  ELSE /\ serverReadyFired' = TRUE
       /\ serverReadyTimeout' = IF serverReadyTimeout = "armed" THEN "cleared"
                                ELSE serverReadyTimeout
       /\ cb' = log \o <<ReadyCb(url), Status("ready")>>

\* readyPatterns of startDevServer: some pattern.test(data).
MatchesReadyPattern(data) == data.host # "none" \/ data.listenPort # 0 \/ data.banner

\* data.match(/(?:localhost|127\.0\.0\.1):(\d+)/i), and 3000 without a match.
FallbackPort(data) == IF data.host # "none" THEN data.hostPort ELSE DefaultPort

\* /available on|listening/i.test(data) of serveStaticSite.
MatchesStaticPattern(data) == data.availableOn \/ data.listenPort # 0

\* The run process of a nodejs project writes a chunk: a textual match while the
\* latch is open starts a grace timer for its port.
Chunk(data) ==
  /\ pc = "serving"
  /\ project.type = "nodejs"
  /\ proc = "running"
  /\ chunks < MaxChunks
  /\ chunks' = chunks + 1
  /\ graceTimers' = IF ~serverReadyFired /\ MatchesReadyPattern(data)
                    THEN Append(graceTimers, [port |-> FallbackPort(data), data |-> data])
                    ELSE graceTimers
  /\ UNCHANGED <<bootVars, project, pc, myCall, container, cb, serverReadyFired,
                 serverReadyTimeout, graceFired, proc, events>>

\* The run process of the static server writes a chunk.
StaticChunk(data) ==
  /\ pc = "serving"
  /\ project.type = "static"
  /\ proc = "running"
  /\ chunks < MaxChunks
  /\ chunks' = chunks + 1
  /\ graceTimers' = IF ~serverReadyFired /\ MatchesStaticPattern(data)
                    THEN Append(graceTimers, [port |-> DefaultPort, data |-> data])
                    ELSE graceTimers
  /\ UNCHANGED <<bootVars, project, pc, myCall, container, cb, serverReadyFired,
                 serverReadyTimeout, graceFired, proc, events>>

\* if (!serverReadyFired) of the fallback timer's callback.
GraceAccepts_Always(fired) == TRUE
GraceAccepts(fired) == ~fired

\* The oldest grace timer of a nodejs run fires: unless the latch is set, the
\* fallback warning is printed and the localhost URL is reported.
GraceTimerFires ==
  /\ project.type = "nodejs"
  /\ graceTimers # <<>>
  /\ graceTimers' = Tail(graceTimers)
  /\ graceFired' = graceFired + 1
  /\ IF GraceAccepts(serverReadyFired)
     THEN handleServerReady(Append(cb, Output("fallback warning")),
                            LocalhostUrl(Head(graceTimers).port))
     ELSE UNCHANGED <<cb, serverReadyFired, serverReadyTimeout>>
  /\ UNCHANGED <<bootVars, project, pc, myCall, container, proc, chunks, events>>

\* The oldest grace timer of a static run fires.
StaticGraceTimerFires ==
  /\ project.type = "static"
  /\ graceTimers # <<>>
  /\ graceTimers' = Tail(graceTimers)
  /\ graceFired' = graceFired + 1
  /\ IF GraceAccepts(serverReadyFired)
     THEN handleServerReady(cb, LocalhostUrl(DefaultPort))
     ELSE UNCHANGED <<cb, serverReadyFired, serverReadyTimeout>>
  /\ UNCHANGED <<bootVars, project, pc, myCall, container, proc, chunks, events>>

\* The sandbox emits server-ready with url: the listener calls handleServerReady.
ServerReadyEvent(url) ==
  /\ pc = "serving"
  /\ Len(events) < MaxEvents
  /\ events' = Append(events, url)
  /\ handleServerReady(cb, url)
  /\ UNCHANGED <<bootVars, project, pc, myCall, container, graceTimers, graceFired, proc, chunks>>

\* The stall timer fires: a hint is printed unless the latch is set.
StallTimeoutFires_Fatal ==
  /\ serverReadyTimeout = "armed"
  /\ serverReadyTimeout' = "fired"
  /\ cb' = IF ~serverReadyFired
           THEN cb \o <<ErrorCb("Server is taking longer than expected"), Status("error")>>
           ELSE cb
  /\ UNCHANGED <<bootVars, project, pc, myCall, container, serverReadyFired, graceTimers, graceFired,
                 proc, chunks, events>>
StallTimeoutFires ==
  /\ serverReadyTimeout = "armed"
  /\ serverReadyTimeout' = "fired"
  /\ cb' = IF ~serverReadyFired THEN Append(cb, Output("stall hint")) ELSE cb
  /\ UNCHANGED <<bootVars, project, pc, myCall, container, serverReadyFired, graceTimers, graceFired,
                 proc, chunks, events>>

\* if (code !== 0 && !serverReadyFired) of the exit handler.
ExitIsFatal_AnyFailure(code, fired) == code # 0
ExitIsFatal(code, fired) == code # 0 /\ ~fired

\* The run process exits with code: the stall timer is cleared, and a non-zero
\* exit before readiness is reported.
ServerExits(code) ==
  /\ pc = "serving"
  /\ proc = "running"
  /\ proc' = (IF code = 0 THEN "exited" ELSE "failed")
  /\ serverReadyTimeout' = IF serverReadyTimeout = "armed" THEN "cleared"
                           ELSE serverReadyTimeout
  /\ cb' = IF ExitIsFatal(code, serverReadyFired)
           THEN cb \o <<ErrorCb(IF project.type = "static"
                                THEN "Static server exited"
                                ELSE "Dev server exited"),
                        Status("error")>>
           ELSE cb
  /\ UNCHANGED <<bootVars, project, pc, myCall, container, serverReadyFired, graceTimers, graceFired,
                 chunks, events>>

\* The step involves neither the port listener nor its timer.
NoPortListener == UNCHANGED <<railwayVars, storeVars, commandVars, staticVars, detectVars, teardownVars, listenerVars, bufferVars, relayVars, treeVars, manifestVars, timedVars>>

\* One launch of runFullWorkflow of webcontainer.ts, with the boot it awaits.
NextRun ==
  \/ Launch /\ NoPortListener
  \/ \E b \in DOMAIN boots : BootResolves(b) /\ NoWorkflow
  \/ \E ch \in DOMAIN chains : BootTimesOut(ch) /\ NoWorkflow
  \/ \E b \in DOMAIN boots, msg \in BootErrors : BootRejects(b, msg) /\ NoWorkflow
  \/ Booted /\ NoPortListener
  \/ BootFailed /\ NoPortListener
  \/ MountFails /\ NoPortListener
  \/ Mounted /\ NoPortListener
  \/ Preflight /\ NoPortListener
  \/ \E code \in ExitCodes : InstallExits(code) /\ NoPortListener
  \/ InstallThrows("Dependency installation timed out after 300s") /\ NoPortListener
  \/ SpawnFails /\ NoPortListener
  \/ Spawned /\ NoPortListener
  \/ StaticProbed /\ NoPortListener
  \/ StaticInstallThrows /\ NoPortListener
  \/ \E code \in ExitCodes : StaticInstallExits(code) /\ NoPortListener
  \/ \E data \in OutputChunks : Chunk(data) /\ NoPortListener
  \/ \E data \in OutputChunks : StaticChunk(data) /\ NoPortListener
  \/ GraceTimerFires /\ NoPortListener
  \/ StaticGraceTimerFires /\ NoPortListener
  \/ \E url \in EventUrls : ServerReadyEvent(url) /\ NoPortListener
  \/ StallTimeoutFires /\ NoPortListener
  \/ \E code \in ExitCodes : ServerExits(code) /\ NoPortListener

SpecRun == InitRun /\ [][NextRun]_vars

\* ------------------------- Part III: startDevServer of railway-deploy/index.ts

\* The launched projects of this variant: the kind, whether `cat package.json`
\* succeeds, the names of its scripts, those (in manifest order) whose command
\* includes node, nodemon or ts-node, and the names of its dependencies.
RailwayProjects ==
  { [type |-> "nodejs", present |-> TRUE,  scripts |-> {"dev", "build"},
     nodeScripts |-> <<>>, deps |-> {"vite", "react"}],
    [type |-> "nodejs", present |-> TRUE,  scripts |-> {"build", "preview"},
     nodeScripts |-> <<>>, deps |-> {"vite"}],
    [type |-> "nodejs", present |-> TRUE,  scripts |-> {"build", "preview", "serve"},
     nodeScripts |-> <<>>, deps |-> {"vite"}],
    [type |-> "nodejs", present |-> TRUE,  scripts |-> {"build", "preview", "lint"},
     nodeScripts |-> <<>>, deps |-> {"astro"}],
    [type |-> "nodejs", present |-> TRUE,  scripts |-> {"server"},
     nodeScripts |-> <<"server">>, deps |-> {"express"}],
    [type |-> "nodejs", present |-> TRUE,  scripts |-> {"server", "build"},
     nodeScripts |-> <<"server">>, deps |-> {"vite", "express"}],
    [type |-> "nodejs", present |-> TRUE,  scripts |-> {"lint"},
     nodeScripts |-> <<>>, deps |-> {"react-scripts"}],
    [type |-> "nodejs", present |-> FALSE, scripts |-> {},
     nodeScripts |-> <<>>, deps |-> {}],
    [type |-> "python", present |-> FALSE, scripts |-> {},
     nodeScripts |-> <<>>, deps |-> {}] }

\* The framework readPackageJson detects from the dependency names.
DetectFramework_ServerFirst(deps) ==
  IF {"express", "koa", "fastify"} \cap deps # {} THEN "express"
  ELSE IF {"vite", "@vitejs/plugin-react", "@vitejs/plugin-vue"} \cap deps # {} THEN "vite"
  ELSE IF "next" \in deps THEN "next"
  ELSE "unknown"
DetectFramework(deps) ==
  IF {"vite", "@vitejs/plugin-react", "@vitejs/plugin-vue"} \cap deps # {} THEN "vite"
  ELSE IF "next" \in deps THEN "next"
  ELSE IF "react-scripts" \in deps THEN "cra"
  ELSE IF {"@angular/core", "@angular/cli"} \cap deps # {} THEN "angular"
  ELSE IF "@vue/cli-service" \in deps THEN "vue-cli"
  ELSE IF {"nuxt", "nuxt3"} \cap deps # {} THEN "nuxt"
  ELSE IF "@remix-run/react" \in deps THEN "remix"
  ELSE IF "astro" \in deps THEN "astro"
  ELSE IF {"express", "koa", "fastify"} \cap deps # {} THEN "express"
  ELSE "unknown"

frameworkScriptPriority(framework) ==
  CASE framework = "vite"    -> <<"dev", "start", "serve", "preview">>
    [] framework = "next"    -> <<"dev", "start">>
    [] framework = "cra"     -> <<"start">>
    [] framework = "angular" -> <<"start", "serve">>
    [] framework = "vue-cli" -> <<"serve", "dev", "start">>
    [] framework = "nuxt"    -> <<"dev", "start">>
    [] framework = "remix"   -> <<"dev", "start">>
    [] framework = "astro"   -> <<"dev", "start", "preview">>
    [] framework = "express" -> <<"start", "dev", "serve", "start:dev">>
    [] OTHER -> <<"dev", "start", "serve", "develop", "watch", "start:dev", "preview">>

\* No script was found.
NoScript == [script |-> "", needsHostFlag |-> FALSE, buildFirst |-> FALSE]

\* findDevScript of this variant: the first script of the framework's priority
\* list, then the build + preview pair, then the first script that runs node.
RailwayFindDevScript(pkg) ==
  LET framework == DetectFramework(pkg.deps)
      prio      == frameworkScriptPriority(framework)
      needsHost == framework \in {"vite", "astro"}
      hits      == {i \in DOMAIN prio : prio[i] \in pkg.scripts}
  IN  IF ~pkg.present THEN NoScript
      ELSE IF hits # {}
      THEN LET name == prio[CHOOSE i \in hits : \A j \in hits : i <= j]
           IN  [script |-> name, needsHostFlag |-> needsHost,
                buildFirst |-> (name = "preview" /\ "build" \in pkg.scripts)]
      ELSE IF {"build", "preview"} \subseteq pkg.scripts
      THEN [script |-> "preview", needsHostFlag |-> needsHost, buildFirst |-> TRUE]
      ELSE IF pkg.nodeScripts # <<>>
      THEN [script |-> Head(pkg.nodeScripts), needsHostFlag |-> FALSE, buildFirst |-> FALSE]
      ELSE NoScript

InitRailway ==
  /\ InitBoot
  /\ variant = "railway-deploy/index.ts"
  /\ project \in RailwayProjects
  /\ pc = "idle"
  /\ myCall = 0
  /\ container = NoHandle
  /\ cb = <<>>
  /\ serverReadyFired = FALSE
  /\ serverReadyTimeout = "unset"
  /\ graceTimers = <<>>
  /\ graceFired = 0
  /\ proc = "none"
  /\ chunks = 0
  /\ events = <<>>
  /\ portReadyTimeout = "none"
  /\ portEvents = 0
  /\ spawned = NoSpawn
  /\ InitElsewhere

\* The listeners startDevServer registers on entry stay registered from then on.
Listening == pc \in {"reading", "installing", "building", "spawning", "serving", "returned"}

\* container.mount(files) resolved: a browse-only project is ready, any other
\* enters startDevServer, which registers its server-ready and port listeners
\* and starts reading package.json.
RailwayMounted ==
  /\ pc = "mounting"
  /\ project.type # "static"
  /\ IF ~Runnable
     THEN cb' = Append(cb, Status("ready")) /\ pc' = "done"
     ELSE cb' = cb /\ pc' = "reading"
  /\ UNCHANGED <<bootVars, project, myCall, container, serverReadyFired, serverReadyTimeout,
                 graceTimers, graceFired, proc, chunks, events, railwayVars>>

\* readPackageJson returned: status installing, and npm install is started.
RailwayPackageRead ==
  /\ pc = "reading"
  /\ cb' = Append(cb, Status("installing"))
  /\ pc' = "installing"
  /\ UNCHANGED <<bootVars, project, myCall, container, serverReadyFired, serverReadyTimeout,
                 graceTimers, graceFired, proc, chunks, events, railwayVars>>

\* npm install exited with code: a failure is reported; a success leads to
\* findDevScript, and either to the build or to status running and the spawn.
RailwayInstallExits_NoBuild(code) ==
  /\ pc = "installing"
  /\ IF code # 0
     THEN /\ cb' = cb \o <<ErrorCb("npm install failed"), Status("error")>>
          /\ pc' = "returned"
     ELSE IF RailwayFindDevScript(project) = NoScript
     THEN /\ cb' = cb \o <<ErrorCb("No dev/start script found in package.json"),
                           Status("error")>>
          /\ pc' = "returned"
     ELSE /\ cb' = Append(cb, Status("running"))
          /\ pc' = "spawning"
  /\ UNCHANGED <<bootVars, project, myCall, container, serverReadyFired, serverReadyTimeout,
                 graceTimers, graceFired, proc, chunks, events, railwayVars>>
RailwayInstallExits(code) ==
  /\ pc = "installing"
  /\ IF code # 0
     THEN /\ cb' = cb \o <<ErrorCb("npm install failed"), Status("error")>>
          /\ pc' = "returned"
     ELSE IF RailwayFindDevScript(project) = NoScript
     THEN /\ cb' = cb \o <<ErrorCb("No dev/start script found in package.json"),
                           Status("error")>>
          /\ pc' = "returned"
     ELSE IF RailwayFindDevScript(project).buildFirst
     THEN /\ cb' = cb
          /\ pc' = "building"
     ELSE /\ cb' = Append(cb, Status("running"))
          /\ pc' = "spawning"
  /\ UNCHANGED <<bootVars, project, myCall, container, serverReadyFired, serverReadyTimeout,
                 graceTimers, graceFired, proc, chunks, events, railwayVars>>

\* npm run build exited with code.
RailwayBuildExits(code) ==
  /\ pc = "building"
  /\ IF code # 0
     THEN /\ cb' = cb \o <<ErrorCb("Build failed"), Status("error")>>
          /\ pc' = "returned"
     ELSE /\ cb' = Append(cb, Status("running"))
          /\ pc' = "spawning"
  /\ UNCHANGED <<bootVars, project, myCall, container, serverReadyFired, serverReadyTimeout,
                 graceTimers, graceFired, proc, chunks, events, railwayVars>>

\* container.spawn rejected (for the install, the build or the run command):
\* the catch of startDevServer clears both timers and reports the error.
RailwaySpawnFails ==
  /\ pc \in {"installing", "building", "spawning"}
  /\ portReadyTimeout' = "none"
  /\ cb' = cb \o <<ErrorCb("Failed to spawn"), Status("error")>>
  /\ pc' = "returned"
  /\ UNCHANGED <<bootVars, project, myCall, container, serverReadyFired, serverReadyTimeout,
                 graceTimers, graceFired, proc, chunks, events, portEvents, spawned>>

\* npmArgs of the run command: the host-binding flag is appended on needsHostFlag.
RunArgs_NoHostFlag(info) == <<"run", info.script>>
RunArgs(info) ==
  IF info.needsHostFlag
  THEN <<"run", info.script, "--", "--host", "0.0.0.0">>
  ELSE <<"run", info.script>>

\* env of the run command.
RunEnv == [HOST |-> "0.0.0.0", HOSTNAME |-> "0.0.0.0"]

\* The run command is spawned: the output pipe, the stall timer and the exit
\* handler are set up, and startDevServer returns.
RailwaySpawned ==
  /\ pc = "spawning"
  /\ proc' = "running"
  /\ spawned' = [args |-> RunArgs(RailwayFindDevScript(project)), env |-> RunEnv]
  /\ serverReadyTimeout' = "armed"
  /\ pc' = "serving"
  /\ UNCHANGED <<bootVars, project, myCall, container, cb, serverReadyFired, graceTimers,
                 graceFired, chunks, events, portReadyTimeout, portEvents>>

\* handleServerReady(url, port) of this variant, log being the callbacks
\* delivered before it and pending the port timer left by its caller: it also
\* clears the port timer.
RailwayHandleServerReady(log, url, pending) ==
  IF LatchBlocks(serverReadyFired)
  THEN /\ cb' = log
       /\ portReadyTimeout' = pending
       /\ UNCHANGED <<serverReadyFired, serverReadyTimeout>>
  ELSE /\ serverReadyFired' = TRUE
       /\ serverReadyTimeout' = IF serverReadyTimeout = "armed" THEN "cleared"
                                ELSE serverReadyTimeout
       /\ portReadyTimeout' = "none"
       /\ cb' = log \o <<ReadyCb(url), Status("ready")>>

\* The sandbox emits server-ready with url while the listener is registered.
RailwayServerReadyEvent(url) ==
  /\ Listening
  /\ Len(events) < MaxEvents
  /\ events' = Append(events, url)
  /\ RailwayHandleServerReady(cb, url, portReadyTimeout)
  /\ UNCHANGED <<bootVars, project, pc, myCall, container, graceTimers, graceFired, proc,
                 chunks, portEvents, spawned>>

PortEventTypes == {"open", "close"}

\* The sandbox emits a port event: an open port with a URL replaces the pending
\* port timer by one for this URL.
RailwayPortEvent(type, url) ==
  /\ Listening
  /\ portEvents < MaxPortEvents
  /\ portEvents' = portEvents + 1
  /\ UNCHANGED spawned
  /\ portReadyTimeout' = IF type = "open" /\ url # "" THEN url ELSE portReadyTimeout
  /\ UNCHANGED <<bootVars, runVars>>

\* if (!serverReadyFired) of the port timer's callback.
PortTimerAccepts(fired) == ~fired

\* The port timer fires: unless the latch is set, its URL is reported.
RailwayPortTimerFires ==
  /\ portReadyTimeout # "none"
  /\ IF PortTimerAccepts(serverReadyFired)
     THEN RailwayHandleServerReady(cb, portReadyTimeout, "none")
     ELSE /\ portReadyTimeout' = "none"
          /\ UNCHANGED <<cb, serverReadyFired, serverReadyTimeout>>
  /\ UNCHANGED <<bootVars, project, pc, myCall, container, graceTimers, graceFired, proc,
                 chunks, events, portEvents, spawned>>

\* The run process writes a chunk: it is passed to onOutput and nothing else.
RailwayChunk ==
  /\ pc = "serving"
  /\ proc = "running"
  /\ chunks < MaxChunks
  /\ chunks' = chunks + 1
  /\ UNCHANGED <<bootVars, project, pc, myCall, container, cb, serverReadyFired,
                 serverReadyTimeout, graceTimers, graceFired, proc, events, railwayVars>>

\* The run process exits with code: both timers are cleared, and a non-zero
\* exit before readiness is reported.
RailwayServerExits(code) ==
  /\ pc = "serving"
  /\ proc = "running"
  /\ proc' = (IF code = 0 THEN "exited" ELSE "failed")
  /\ serverReadyTimeout' = IF serverReadyTimeout = "armed" THEN "cleared"
                           ELSE serverReadyTimeout
  /\ portReadyTimeout' = "none"
  /\ cb' = IF code # 0 /\ ~serverReadyFired
           THEN cb \o <<ErrorCb("Dev server exited"), Status("error")>>
           ELSE cb
  /\ UNCHANGED <<bootVars, project, pc, myCall, container, serverReadyFired, graceTimers,
                 graceFired, chunks, events, portEvents, spawned>>

\* One launch of runFullWorkflow of railway-deploy/index.ts, with the boot it awaits.
NextRailway ==
  \/ Launch /\ NoPortListener
  \/ \E b \in DOMAIN boots : BootResolves(b) /\ NoWorkflow
  \/ \E ch \in DOMAIN chains : BootTimesOut(ch) /\ NoWorkflow
  \/ \E b \in DOMAIN boots, msg \in BootErrors :
       BootRejects(b, msg) /\ NoWorkflow
  \/ Booted /\ NoPortListener
  \/ BootFailed /\ NoPortListener
  \/ MountFails /\ NoPortListener
  \/ RailwayMounted /\ Elsewhere
  \/ RailwayPackageRead /\ Elsewhere
  \/ \E code \in ExitCodes : RailwayInstallExits(code) /\ Elsewhere
  \/ \E code \in ExitCodes : RailwayBuildExits(code) /\ Elsewhere
  \/ RailwaySpawnFails /\ Elsewhere
  \/ RailwaySpawned /\ Elsewhere
  \/ \E url \in EventUrls : RailwayServerReadyEvent(url) /\ Elsewhere
  \/ \E type \in PortEventTypes, url \in EventUrls \cup {""} : RailwayPortEvent(type, url) /\ Elsewhere
  \/ RailwayPortTimerFires /\ Elsewhere
  \/ RailwayChunk /\ Elsewhere
  \/ StallTimeoutFires /\ NoPortListener
  \/ \E code \in ExitCodes : RailwayServerExits(code) /\ Elsewhere

SpecRailway == InitRailway /\ [][NextRailway]_vars

\* --------------------- Part IV: the timed variant, src/unnamed/part_001

\* The launched projects of this variant (its serving code is that of
\* webcontainer.ts without the output buffer; static sites are left out).
TimedProjects ==
  { [type |-> "nodejs", present |-> TRUE,  scripts |-> {"dev", "start"}, specs |-> {"^5.0.0"}],
    [type |-> "nodejs", present |-> TRUE,  scripts |-> {"lint"},         specs |-> {"^5.0.0"}],
    [type |-> "nodejs", present |-> FALSE, scripts |-> {},               specs |-> {}],
    [type |-> "python", present |-> FALSE, scripts |-> {},               specs |-> {}] }

\* The run state of a launch that has not begun.
FreshRun ==
  /\ pc = "idle"
  /\ myCall = 0
  /\ container = NoHandle
  /\ cb = <<>>
  /\ serverReadyFired = FALSE
  /\ serverReadyTimeout = "unset"
  /\ graceTimers = <<>>
  /\ graceFired = 0
  /\ proc = "none"
  /\ chunks = 0
  /\ events = <<>>

InitTimed ==
  /\ InitBoot
  /\ variant = "part_001"
  /\ project \in TimedProjects
  /\ FreshRun
  /\ portReadyTimeout = "none"
  /\ portEvents = 0
  /\ spawned = NoSpawn
  /\ InitElsewhere

\* The step involves neither the store nor a command call.
NoStoreNoCommand == UNCHANGED <<railwayVars, storeVars, commandVars, staticVars, detectVars, teardownVars, listenerVars, bufferVars, relayVars, treeVars, manifestVars>>

\* The sandbox of the run still exists.
SandboxAlive == container \in live

\* findDevScript of this variant: start comes first.
timedDevScripts == <<"start", "dev", "serve", "develop", "watch">>
TimedFindDevScript(pkg) ==
  IF ~pkg.present \/ \A i \in DOMAIN timedDevScripts : timedDevScripts[i] \notin pkg.scripts
  THEN ""
  ELSE timedDevScripts[CHOOSE i \in DOMAIN timedDevScripts :
                         /\ timedDevScripts[i] \in pkg.scripts
                         /\ \A j \in 1 .. (i - 1) : timedDevScripts[j] \notin pkg.scripts]

\* bootWebContainer() rejected: the catch of runFullWorkflow, which for a
\* runnable project clears the Execution Timer first.
TimedBootFailed ==
  /\ pc = "booting"
  /\ calls[myCall].state = "rejected"
  /\ cb' = cb \o WorkflowCatch(calls[myCall].error)
  /\ pc' = "done"
  /\ IF Runnable
     THEN /\ armedTimers' = clearExecutionTimer(armedTimers)
          /\ executionTimer' = NoTimer
          /\ timerLaunch' = 0
     ELSE UNCHANGED <<armedTimers, executionTimer, timerLaunch>>
  /\ UNCHANGED <<variant, webcontainerInstance, bootPromise, timerStarts, chains, boots, calls,
                 live, teardownLog, teardowns, project, myCall, container, serverReadyFired,
                 serverReadyTimeout, graceTimers, graceFired, proc, chunks, events,
                 launch, expiries>>

\* container.mount(files) rejected: the same catch.
TimedMountFails ==
  /\ pc = "mounting"
  /\ cb' = cb \o WorkflowCatch("Failed to mount files")
  /\ pc' = "done"
  /\ IF Runnable
     THEN /\ armedTimers' = clearExecutionTimer(armedTimers)
          /\ executionTimer' = NoTimer
          /\ timerLaunch' = 0
     ELSE UNCHANGED <<armedTimers, executionTimer, timerLaunch>>
  /\ UNCHANGED <<variant, webcontainerInstance, bootPromise, timerStarts, chains, boots, calls,
                 live, teardownLog, teardowns, project, myCall, container, serverReadyFired,
                 serverReadyTimeout, graceTimers, graceFired, proc, chunks, events,
                 launch, expiries>>

\* container.mount(files) resolved: a browse-only project is ready, a nodejs
\* one has its package.json verified.
TimedMounted_NoNotice ==
  /\ pc = "mounting"
  /\ IF ~Runnable
     THEN cb' = Append(cb, Status("ready")) /\ pc' = "done"
     ELSE cb' = cb /\ pc' = "verifying"
  /\ UNCHANGED <<bootVars, project, myCall, container, serverReadyFired, serverReadyTimeout,
                 graceTimers, graceFired, proc, chunks, events, timedVars>>
TimedMounted ==
  /\ pc = "mounting"
  /\ IF ~Runnable
     THEN cb' = cb \o <<Output("code browsing only"), Status("ready")>> /\ pc' = "done"
     ELSE cb' = cb /\ pc' = "verifying"
  /\ UNCHANGED <<bootVars, project, myCall, container, serverReadyFired, serverReadyTimeout,
                 graceTimers, graceFired, proc, chunks, events, timedVars>>

\* verifyPackageJson returned has: without a package.json the run ends in
\* error; with one, startExecutionTimer() arms the Execution Timer, and
\* startDevServer sets status installing and starts npm install.
TimedVerified_TimerFirst(has) ==
  /\ pc = "verifying"
  /\ startExecutionTimer
  /\ timerLaunch' = launch
  /\ IF ~has
     THEN /\ cb' = cb \o <<ErrorCb("This repository is not a Node.js project"),
                           Status("error")>>
          /\ pc' = "done"
     ELSE /\ cb' = Append(cb, Status("installing"))
          /\ pc' = "installing"
  /\ UNCHANGED <<project, myCall, container, serverReadyFired, serverReadyTimeout,
                 graceTimers, graceFired, proc, chunks, events, launch, expiries>>
TimedVerified(has) ==
  /\ pc = "verifying"
  /\ IF ~has
     THEN /\ cb' = cb \o <<ErrorCb("This repository is not a Node.js project"),
                           Status("error")>>
          /\ pc' = "done"
          /\ UNCHANGED <<bootVars, timerLaunch>>
     ELSE /\ startExecutionTimer
          /\ timerLaunch' = launch
          /\ cb' = Append(cb, Status("installing"))
          /\ pc' = "installing"
  /\ UNCHANGED <<project, myCall, container, serverReadyFired, serverReadyTimeout,
                 graceTimers, graceFired, proc, chunks, events, launch, expiries>>

\* The outcomes of runCommandWithTimeout of this variant: it timed out, the
\* spawn failed (exit code -1), or the process exited with a code.
InstallResults ==
  { [exitCode |-> -1, timedOut |-> TRUE], [exitCode |-> -1, timedOut |-> FALSE],
    [exitCode |-> 0,  timedOut |-> FALSE], [exitCode |-> 1,  timedOut |-> FALSE] }

\* runCommandWithTimeout resolved with installResult.
TimedInstallSettles(installResult) ==
  /\ pc = "installing"
  /\ IF installResult.timedOut
     THEN /\ cb' = cb \o <<ErrorCb("Dependency installation timed out"), Status("error")>>
          /\ pc' = "done"
     ELSE IF installResult.exitCode # 0
     THEN /\ cb' = cb \o <<ErrorCb("Failed to install dependencies"), Status("error")>>
          /\ pc' = "done"
     ELSE IF TimedFindDevScript(project) = ""
     THEN /\ cb' = cb \o <<ErrorCb("No start script found"), Status("error")>>
          /\ pc' = "done"
     ELSE /\ cb' = Append(cb, Status("running"))
          /\ pc' = "spawning"
  /\ UNCHANGED <<bootVars, project, myCall, container, serverReadyFired, serverReadyTimeout,
                 graceTimers, graceFired, proc, chunks, events, timedVars>>

\* teardownWebContainer() called by the workspace while a launch exists.
TimedTeardown ==
  /\ teardownWebContainer
  /\ timerLaunch' = 0
  /\ UNCHANGED <<runVars, launch, expiries>>

\* The status a log ends with, idle before the first.
LastStatus(log) ==
  LET at == {i \in DOMAIN log : log[i].k = "status"}
  IN  IF at = {} THEN "idle" ELSE log[CHOOSE i \in at : \A j \in at : j <= i].v

\* The Execution Timer t fires: its callback prints the notice and calls
\* teardownWebContainer().
TimedTimerExpires(t) ==
  /\ ExecutionTimerExpires(t)
  /\ cb' = Append(cb, Output("execution time limit reached"))
  /\ expiries' = Append(expiries, [armedBy |-> timerLaunch, during |-> launch,
                                   handle |-> webcontainerInstance,
                                   phase |-> pc, status |-> LastStatus(cb)])
  /\ timerLaunch' = 0
  /\ UNCHANGED <<project, pc, myCall, container, serverReadyFired, serverReadyTimeout,
                 graceTimers, graceFired, proc, chunks, events, launch>>

\* The caller launches runFullWorkflow again after the earlier call returned;
\* what the earlier run still has pending is not followed further.
Relaunch ==
  /\ launch < MaxLaunches
  /\ pc \in {"done", "serving"}
  /\ launch' = launch + 1
  /\ project' \in TimedProjects
  /\ pc' = "idle"
  /\ myCall' = 0
  /\ container' = NoHandle
  /\ cb' = <<>>
  /\ serverReadyFired' = FALSE
  /\ serverReadyTimeout' = "unset"
  /\ graceTimers' = <<>>
  /\ graceFired' = 0
  /\ proc' = "none"
  /\ chunks' = 0
  /\ events' = <<>>
  /\ UNCHANGED <<bootVars, timerLaunch, expiries>>

\* Launches of runFullWorkflow of part_001, with the boots they await, the
\* Execution Timer and the teardown of the workspace.
NextTimed ==
  \/ Launch /\ NoPortListener
  \/ \E b \in DOMAIN boots : BootResolves(b) /\ NoWorkflow
  \/ \E ch \in DOMAIN chains : BootTimesOut(ch) /\ NoWorkflow
  \/ \E b \in DOMAIN boots, msg \in BootErrors : BootRejects(b, msg) /\ NoWorkflow
  \/ Booted /\ NoPortListener
  \/ TimedBootFailed /\ NoStoreNoCommand
  \/ TimedMountFails /\ NoStoreNoCommand
  \/ TimedMounted /\ NoStoreNoCommand
  \/ \E has \in (IF SandboxAlive THEN {project.present} ELSE {FALSE}) :
       TimedVerified(has) /\ NoStoreNoCommand
  \/ \E installResult \in InstallResults :
       TimedInstallSettles(installResult) /\ NoStoreNoCommand
  \/ SpawnFails /\ NoPortListener
  \/ Spawned /\ SandboxAlive /\ NoPortListener
  \/ \E data \in OutputChunks : Chunk(data) /\ SandboxAlive /\ NoPortListener
  \/ GraceTimerFires /\ NoPortListener
  \/ \E url \in EventUrls : ServerReadyEvent(url) /\ SandboxAlive /\ NoPortListener
  \/ StallTimeoutFires /\ NoPortListener
  \/ \E code \in ExitCodes : ServerExits(code) /\ NoPortListener
  \/ TimedTeardown /\ NoStoreNoCommand
  \/ \E t \in armedTimers : TimedTimerExpires(t) /\ NoStoreNoCommand
  \/ Relaunch /\ NoStoreNoCommand

SpecTimed == InitTimed /\ [][NextTimed]_vars

\* The kinds runFullWorkflow only mounts: every ProjectType but nodejs and static.
BrowseOnlyKinds == {"python", "rust", "go", "other"}

\* One launch of runFullWorkflow of part_001, on a project of any kind it can
\* be handed but static.
InitTimedOnce ==
  /\ InitBoot
  /\ variant = "part_001"
  /\ project \in TimedProjects \cup
                 { [type |-> kind, present |-> FALSE, scripts |-> {}, specs |-> {}] :
                   kind \in BrowseOnlyKinds }
  /\ FreshRun
  /\ portReadyTimeout = "none"
  /\ portEvents = 0
  /\ spawned = NoSpawn
  /\ InitElsewhere

NextTimedOnce ==
  \/ Launch /\ NoPortListener
  \/ \E b \in DOMAIN boots : BootResolves(b) /\ NoWorkflow
  \/ \E ch \in DOMAIN chains : BootTimesOut(ch) /\ NoWorkflow
  \/ \E b \in DOMAIN boots, msg \in BootErrors : BootRejects(b, msg) /\ NoWorkflow
  \/ Booted /\ NoPortListener
  \/ TimedBootFailed /\ NoStoreNoCommand
  \/ TimedMountFails /\ NoStoreNoCommand
  \/ TimedMounted /\ NoStoreNoCommand
  \/ \E has \in (IF SandboxAlive THEN {project.present} ELSE {FALSE}) :
       TimedVerified(has) /\ NoStoreNoCommand
  \/ \E installResult \in InstallResults :
       TimedInstallSettles(installResult) /\ NoStoreNoCommand
  \/ SpawnFails /\ NoPortListener
  \/ Spawned /\ SandboxAlive /\ NoPortListener
  \/ \E data \in OutputChunks : Chunk(data) /\ SandboxAlive /\ NoPortListener
  \/ GraceTimerFires /\ NoPortListener
  \/ \E url \in EventUrls : ServerReadyEvent(url) /\ SandboxAlive /\ NoPortListener
  \/ StallTimeoutFires /\ NoPortListener
  \/ \E code \in ExitCodes : ServerExits(code) /\ NoPortListener
  \/ TimedTeardown /\ NoStoreNoCommand
  \/ \E t \in armedTimers : TimedTimerExpires(t) /\ NoStoreNoCommand

SpecTimedOnce == InitTimedOnce /\ [][NextTimedOnce]_vars

\* --------------------------- Part V: the workspace and its store (handleBack)

\* The bootWebContainer() calls of the application and the store's setters
\* run on the main module.
InitWorkspace ==
  /\ variant = "webcontainer.ts"
  /\ InitBoot
  /\ NoRun
  /\ InitElsewhere

\* The step is one of the store alone.
StoreOnly == UNCHANGED <<bootVars, runVars, railwayVars, commandVars, staticVars, detectVars, teardownVars, listenerVars, bufferVars, relayVars, treeVars, manifestVars, timedVars>>

\* The values the application writes into the store.
ContainerStatuses == {"idle", "ready"}
PreviewUrls == {"null", "http://localhost:3000"}
ProjectInfos == {"null", "nodejs"}
Views == {"landing", "workspace"}

\* setContainerStatus: (status) => set({ containerStatus: status })
setContainerStatus(status) ==
  /\ status # containerStatus
  /\ containerStatus' = status
  /\ UNCHANGED <<terminalOutput, previewUrl, projectInfo, view, backs>>

\* appendTerminalOutput: (output) => set((state) => ({ terminalOutput: state.terminalOutput + output }))
appendTerminalOutput(output) ==
  /\ Len(terminalOutput) < MaxOutput
  /\ terminalOutput' = Append(terminalOutput, output)
  /\ UNCHANGED <<containerStatus, previewUrl, projectInfo, view, backs>>

\* setPreviewUrl: (url) => set({ previewUrl: url })
setPreviewUrl(url) ==
  /\ url # previewUrl
  /\ previewUrl' = url
  /\ UNCHANGED <<containerStatus, terminalOutput, projectInfo, view, backs>>

\* setProjectInfo: (info) => set({ projectInfo: info })
setProjectInfo(info) ==
  /\ info # projectInfo
  /\ projectInfo' = info
  /\ UNCHANGED <<containerStatus, terminalOutput, previewUrl, view, backs>>

\* setView: (view) => set({ view: view })
setView(v) ==
  /\ v # view
  /\ view' = v
  /\ UNCHANGED <<containerStatus, terminalOutput, previewUrl, projectInfo, backs>>

\* The store as one value.
store ==
  [containerStatus |-> containerStatus, terminalOutput |-> terminalOutput,
   previewUrl |-> previewUrl, projectInfo |-> projectInfo, view |-> view]

\* reset: () => set({ ...initialState, expandedFolders: new Set() })
reset(s) ==
  [containerStatus |-> "idle", terminalOutput |-> <<>>, previewUrl |-> "null",
   projectInfo |-> "null", view |-> "landing"]

\* The store writes of handleBack, in order: reset(); setContainerStatus("idle");
\* clearTerminalOutput(); setPreviewUrl(null); setProjectInfo(null);
\* setView("landing").
handleBackStore(s) ==
  LET s1 == reset(s)
      s2 == [s1 EXCEPT !.containerStatus = "idle"]
      s3 == [s2 EXCEPT !.terminalOutput = <<>>]
      s4 == [s3 EXCEPT !.previewUrl = "null"]
      s5 == [s4 EXCEPT !.projectInfo = "null"]
  IN  [s5 EXCEPT !.view = "landing"]

\* handleBack of Workspace: teardownWebContainer(), then the store writes.
handleBack ==
  /\ view = "workspace"
  /\ teardownWebContainer
  /\ LET s == handleBackStore(store)
     IN  /\ containerStatus' = s.containerStatus
         /\ terminalOutput' = s.terminalOutput
         /\ previewUrl' = s.previewUrl
         /\ projectInfo' = s.projectInfo
         /\ view' = s.view
  /\ backs' = Append(backs, [calls |-> Len(calls)])
  /\ UNCHANGED <<runVars, railwayVars, commandVars, staticVars, detectVars, teardownVars, listenerVars, bufferVars, relayVars, treeVars, manifestVars, timedVars>>

NextWorkspace ==
  \/ ReturnExisting /\ NoWorkflow
  \/ JoinInFlight /\ NoWorkflow
  \/ StartBoot /\ NoWorkflow
  \/ \E b \in DOMAIN boots : BootResolves(b) /\ NoWorkflow
  \/ \E b \in DOMAIN boots : LateBootResolves(b) /\ NoWorkflow
  \/ \E ch \in DOMAIN chains : BootTimesOut(ch) /\ NoWorkflow
  \/ \E b \in DOMAIN boots, msg \in BootErrors : BootRejects(b, msg) /\ NoWorkflow
  \/ \E status \in ContainerStatuses : setContainerStatus(status) /\ StoreOnly
  \/ \E output \in {"chunk"} : appendTerminalOutput(output) /\ StoreOnly
  \/ \E url \in PreviewUrls : setPreviewUrl(url) /\ StoreOnly
  \/ \E info \in ProjectInfos : setProjectInfo(info) /\ StoreOnly
  \/ \E v \in Views : setView(v) /\ StoreOnly
  \/ handleBack

SpecWorkspace == InitWorkspace /\ [][NextWorkspace]_vars

\* ------------------- Part VI: teardownWebContainer() during a run (webcontainer.ts)

\* One launch of runFullWorkflow of webcontainer.ts, during which the workspace
\* may call teardownWebContainer(). A released sandbox settles no awaited
\* call, writes no output and emits no event; the timers of the page
\* (setTimeout) are not its own and stay armed.
\* The continuation of `await bootWebContainer()` runs in the task that settles
\* the call, so a click in the workspace cannot come between the two.
AtTaskBoundary == pc = "booting" => calls[myCall].state = "pending"

NextCancel ==
  \/ Launch /\ NoPortListener
  \/ \E b \in DOMAIN boots : BootResolves(b) /\ NoWorkflow
  \/ \E ch \in DOMAIN chains : BootTimesOut(ch) /\ NoWorkflow
  \/ \E b \in DOMAIN boots, msg \in BootErrors : BootRejects(b, msg) /\ NoWorkflow
  \/ Booted /\ NoPortListener
  \/ BootFailed /\ NoPortListener
  \/ SandboxAlive /\ MountFails /\ NoPortListener
  \/ SandboxAlive /\ Mounted /\ NoPortListener
  \/ SandboxAlive /\ Preflight /\ NoPortListener
  \/ \E code \in ExitCodes : SandboxAlive /\ InstallExits(code) /\ NoPortListener
  \/ SandboxAlive /\ InstallThrows("Dependency installation timed out after 300s")
       /\ NoPortListener
  \/ SandboxAlive /\ SpawnFails /\ NoPortListener
  \/ SandboxAlive /\ Spawned /\ NoPortListener
  \/ SandboxAlive /\ StaticProbed /\ NoPortListener
  \/ SandboxAlive /\ StaticInstallThrows /\ NoPortListener
  \/ \E code \in ExitCodes : SandboxAlive /\ StaticInstallExits(code) /\ NoPortListener
  \/ \E data \in OutputChunks : SandboxAlive /\ Chunk(data) /\ NoPortListener
  \/ \E data \in OutputChunks : SandboxAlive /\ StaticChunk(data) /\ NoPortListener
  \/ GraceTimerFires /\ NoPortListener
  \/ StaticGraceTimerFires /\ NoPortListener
  \/ \E url \in EventUrls : SandboxAlive /\ ServerReadyEvent(url) /\ NoPortListener
  \/ StallTimeoutFires /\ NoPortListener
  \/ \E code \in ExitCodes : SandboxAlive /\ ServerExits(code) /\ NoPortListener
  \/ AtTaskBoundary /\ teardownWebContainer /\ NoWorkflow

SpecCancel == InitRun /\ [][NextCancel]_vars

\* ------------------------ Part VII: runCommandWithTimeout of webcontainer.ts

\* The options of a call: label and timeoutMs, Undefined when left out.
Undefined == -1
CommandOptions ==
  { [label |-> "Dependency installation", timeoutMs |-> 300000],
    [label |-> "undefined", timeoutMs |-> Undefined],
    [label |-> "undefined", timeoutMs |-> 1500] }

\* const label = options?.label ?? `${command} ${args.join(" ")}`, for the
\* command npm with the arguments install --no-audit --no-fund.
LabelOf(options) ==
  IF options.label = "undefined" THEN "npm install --no-audit --no-fund" ELSE options.label

\* const timeoutMs = options?.timeoutMs ?? 5 * 60_000
TimeoutMsOf(options) ==
  IF options.timeoutMs = Undefined THEN 5 * 60000 ELSE options.timeoutMs

\* Math.round(timeoutMs / 1000)
RoundSeconds(ms) == (ms + 500) \div 1000

\* new Error(`${label} timed out after ${Math.round(timeoutMs / 1000)}s`)
TimeoutError(options) ==
  [error |-> "timed out", label |-> LabelOf(options),
   seconds |-> RoundSeconds(TimeoutMsOf(options))]

\* The call has not thrown.
NoError == [error |-> "none", label |-> "", seconds |-> 0]

\* The rejection of container.spawn().
SpawnError == [error |-> "spawn failed", label |-> "", seconds |-> 0]

\* The call's locals are in use: every timer armed, nothing written yet.
Started(options) ==
  [state |-> "pending", options |-> options, result |-> Undefined, error |-> NoError,
   settled |-> 0,
   proc |-> "running", exitCode |-> Undefined, kills |-> 0,
   timeoutTimer |-> TRUE, noOutputHintTimer |-> TRUE, stallHintInterval |-> TRUE,
   outputSeen |-> FALSE, buffer |-> 0, timer |-> FALSE, delivered |-> 0,
   written |-> 0, hints |-> 0]

\* buffered.write(chunk): buffer += chunk; if (!timer) timer = setTimeout(flush, flushMs)
write(c) == [c EXCEPT !.buffer = @ + 1, !.timer = TRUE]

\* buffered.flush(): the timer is cleared, a non-empty buffer is delivered.
flush(c) ==
  [c EXCEPT !.timer = FALSE,
            !.delivered = IF c.buffer > 0 THEN @ + 1 ELSE @,
            !.buffer = 0]

\* The finally block: the three timers are cleared, then buffered.flush().
Finally_KeepsDeadline(c) ==
  flush([c EXCEPT !.noOutputHintTimer = FALSE, !.stallHintInterval = FALSE])
Finally(c) ==
  flush([c EXCEPT !.noOutputHintTimer = FALSE, !.stallHintInterval = FALSE,
                  !.timeoutTimer = FALSE])

\* The promise of the call settles, if it has not settled yet.
Settle(c, state, result, error) ==
  IF c.state = "pending"
  THEN [c EXCEPT !.state = state, !.result = result, !.error = error, !.settled = @ + 1]
  ELSE c

\* The step is one of the command call alone.
CommandOnly == UNCHANGED <<bootVars, runVars, railwayVars, storeVars, staticVars, detectVars, teardownVars, listenerVars, bufferVars, relayVars, treeVars, manifestVars, timedVars>>

\* runCommandWithTimeout(container, command, args, onOutput, options) is
\* called and awaits container.spawn().
CommandCalled(options) ==
  /\ cmd.state = "idle"
  /\ cmd' = [cmd EXCEPT !.state = "spawning", !.options = options]

\* container.spawn() resolved: the pipe is set up and the timers are armed.
CommandSpawned ==
  /\ cmd.state = "spawning"
  /\ cmd' = Started(cmd.options)

\* container.spawn() rejected: the call rejects before it arms anything.
CommandSpawnFails ==
  /\ cmd.state = "spawning"
  /\ cmd' = [cmd EXCEPT !.state = "rejected", !.error = SpawnError, !.settled = @ + 1]

\* The process writes a chunk: write(data) of the pipe.
CommandOutput ==
  /\ cmd.proc = "running"
  /\ cmd.written < MaxChunks
  /\ cmd' = write([cmd EXCEPT !.outputSeen = TRUE, !.written = @ + 1])

\* The flush timer of createBufferedOutput fires.
BufferTimerFires ==
  /\ cmd.timer
  /\ cmd' = flush(cmd)

\* noOutputHintTimer fires, 15 s after the spawn.
NoOutputHintFires ==
  /\ cmd.noOutputHintTimer
  /\ cmd' = IF cmd.outputSeen
            THEN [cmd EXCEPT !.noOutputHintTimer = FALSE]
            ELSE write([cmd EXCEPT !.noOutputHintTimer = FALSE])

\* stallHintInterval ticks; stalled says whether idleMs > 60_000.
StallHintTick(stalled) ==
  /\ cmd.stallHintInterval
  /\ cmd.hints < MaxHints
  /\ cmd' = IF stalled
            THEN write([cmd EXCEPT !.hints = @ + 1])
            ELSE [cmd EXCEPT !.hints = @ + 1]

\* timeoutTimer fires: proc.kill(), buffered.flush(), reject; the rejection
\* leaves the await and runs the finally block.
TimeoutFires ==
  /\ cmd.timeoutTimer
  /\ LET killed  == [cmd EXCEPT !.timeoutTimer = FALSE, !.kills = @ + 1,
                                !.proc = IF @ = "running" THEN "killed" ELSE @]
         flushed == flush(killed)
     IN  cmd' = IF cmd.state = "pending"
                THEN Finally(Settle(flushed, "rejected", Undefined, TimeoutError(cmd.options)))
                ELSE flushed

\* proc.exit resolves with code: the race returns it unless it was settled
\* by the deadline before, and the finally block runs.
ProcessExits(code) ==
  /\ cmd.proc \in {"running", "killed"}
  /\ LET exited == [cmd EXCEPT !.proc = "exited", !.exitCode = code]
     IN  cmd' = IF cmd.state = "pending"
                THEN Finally(Settle(exited, "returned", code, NoError))
                ELSE exited

InitCommand ==
  /\ variant = "webcontainer.ts"
  /\ InitBoot
  /\ NoRun
  /\ InitElsewhere

NextCommand ==
  \/ \E options \in CommandOptions : CommandCalled(options) /\ CommandOnly
  \/ CommandSpawned /\ CommandOnly
  \/ CommandSpawnFails /\ CommandOnly
  \/ CommandOutput /\ CommandOnly
  \/ BufferTimerFires /\ CommandOnly
  \/ NoOutputHintFires /\ CommandOnly
  \/ \E stalled \in BOOLEAN : StallHintTick(stalled) /\ CommandOnly
  \/ TimeoutFires /\ CommandOnly
  \/ \E code \in ExitCodes : ProcessExits(code) /\ CommandOnly

SpecCommand == InitCommand /\ [][NextCommand]_vars

\* ------------- Part VIII: static root resolution and the synthesized server

\* The directories of the mounted tree that the model varies; every other
\* candidate directory is absent.
ModelDirs == {".", "public", "dist", "assets"}

\* The files a directory of the model may hold.
ModelFiles == {"index.html", "app.js"}

\* const possibleRoots of findStaticRoot
possibleRoots == <<"public", "dist", "build", "docs", "www", "static", ".">>

\* const possibleDirs of serveStaticSite
possibleDirs == <<".", "public", "dist", "build", "static", "assets", "www", "docs">>

\* test -d dir
HasDir(t, dir) == dir \in DOMAIN t /\ t[dir].exists

\* test -f dir/file, fs.existsSync(path.join(dir, file))
HasFile(t, dir, file) == HasDir(t, dir) /\ file \in t[dir].files

\* findStaticRoot(container): the first candidate with an index.html, "." without one.
findStaticRoot(t) ==
  LET hits == {i \in DOMAIN possibleRoots : HasFile(t, possibleRoots[i], "index.html")}
  IN  IF hits = {} THEN "."
      ELSE possibleRoots[CHOOSE i \in hits : \A j \in hits : i <= j]

\* The elements of s that satisfy Keep, in order (Array.prototype.filter).
RECURSIVE Filter(_, _)
Filter(s, keep) ==
  IF s = <<>> THEN <<>>
  ELSE IF Head(s) \in keep THEN <<Head(s)>> \o Filter(Tail(s), keep)
  ELSE Filter(Tail(s), keep)

\* [...new Set(s)]: the first occurrence of every element, in order.
RECURSIVE Unique(_)
Unique(s) ==
  IF s = <<>> THEN <<>>
  ELSE <<Head(s)>> \o Unique(Filter(Tail(s), {s[i] : i \in DOMAIN s} \ {Head(s)}))

\* existingDirs, staticRoot, orderedDirs and uniqueDirs of serveStaticSite.
StaticDirs(t) ==
  LET existingDirs == Filter(possibleDirs, {dir \in ModelDirs : HasDir(t, dir)})
      staticRoot   == findStaticRoot(t)
      orderedDirs  == <<staticRoot>> \o
                      Filter(existingDirs, {existingDirs[i] : i \in DOMAIN existingDirs}
                                           \ {staticRoot})
  IN  Unique(orderedDirs)

\* The requests of the model: the method and the path, as the name of its last
\* segment and its extension ("" for none, and the name "" for the path /).
Requests ==
  { [method |-> m, name |-> p[1], ext |-> p[2]] :
    m \in {"GET", "POST"},
    p \in {<<"", "">>, <<"about", "">>, <<"app", ".js">>, <<"missing", ".js">>,
           <<"missing", ".html">>} }

\* path.extname(req.path)
ExtName(req) == req.ext

\* The file express.static(dir, staticOptions) serves for req, "" for none: the
\* file itself, index.html for the directory, or the name with .html appended.
StaticFile(t, dir, req) ==
  IF req.method # "GET" THEN ""
  ELSE IF req.name = "" THEN (IF HasFile(t, dir, "index.html") THEN "index.html" ELSE "")
  ELSE IF HasFile(t, dir, req.name \o req.ext) THEN req.name \o req.ext
  ELSE IF req.ext = "" /\ HasFile(t, dir, req.name \o ".html") THEN req.name \o ".html"
  ELSE ""

NotFound == [status |-> 404, dir |-> "", file |-> "", by |-> "404"]

\* The SPA fallback and the 404 handler after it.
Fallback_AnyExtension(t, dirs, req) == NotFound
Fallback(t, dirs, req) ==
  IF req.method # "GET" THEN NotFound
  ELSE IF ExtName(req) # "" /\ ExtName(req) # ".html"
  THEN [status |-> 404, dir |-> "", file |-> "", by |-> "fallback"]
  ELSE LET hits == {i \in DOMAIN dirs : HasFile(t, dirs[i], "index.html")}
       IN  IF hits = {} THEN NotFound
           ELSE [status |-> 200, dir |-> dirs[CHOOSE i \in hits : \A j \in hits : i <= j],
                 file |-> "index.html", by |-> "fallback"]

\* The response of the generated server.js to req: the first directory of dirs
\* whose express.static serves a file, else the fallback.
Respond(t, dirs, req) ==
  LET hits == {i \in DOMAIN dirs : HasDir(t, dirs[i]) /\ StaticFile(t, dirs[i], req) # ""}
  IN  IF hits # {}
      THEN LET i == CHOOSE i \in hits : \A j \in hits : i <= j
           IN  [status |-> 200, dir |-> dirs[i], file |-> StaticFile(t, dirs[i], req),
                by |-> "static"]
      ELSE Fallback(t, dirs, req)

\* The mounted trees of the model: the root exists, every other directory may.
Trees ==
  [ModelDirs -> [exists : BOOLEAN, files : SUBSET ModelFiles]]

\* The root of a mounted tree exists, an absent directory holds nothing, and
\* the bundle app.js is in dist or nowhere.
MountedTree(t) ==
  /\ t["."].exists
  /\ \A dir \in ModelDirs :
       /\ ~t[dir].exists => t[dir].files = {}
       /\ "app.js" \in t[dir].files => dir = "dist"

InitStaticSite ==
  /\ variant = "webcontainer.ts"
  /\ InitBoot
  /\ NoRun
  /\ initialState
  /\ backs = <<>>
  /\ cmd = NoCommand
  /\ launch = 1
  /\ timerLaunch = 0
  /\ expiries = <<>>
  /\ tree \in {t \in Trees : MountedTree(t)}
  /\ uniqueDirs = <<>>
  /\ request = NoRequest
  /\ response = NotFound
  /\ NoDetection
  /\ NoInterruptedBoot
  /\ NoEarlierRun
  /\ NoBufferedOutput
  /\ NoRelayRequest
  /\ NoTreeBuild
  /\ NoManifestRead

\* The step is one of the static server alone.
StaticOnly ==
  UNCHANGED <<bootVars, runVars, railwayVars, storeVars, commandVars, detectVars, teardownVars, listenerVars, bufferVars, relayVars, treeVars, manifestVars, timedVars>>

\* serveStaticSite resolves the directories and writes server.js for them.
ResolveStaticDirs ==
  /\ uniqueDirs = <<>>
  /\ uniqueDirs' = StaticDirs(tree)
  /\ UNCHANGED <<tree, request, response>>

\* The generated server answers a request.
ServeRequest(req) ==
  /\ uniqueDirs # <<>>
  /\ request' = req
  /\ response' = Respond(tree, uniqueDirs, req)
  /\ UNCHANGED <<tree, uniqueDirs>>

NextStaticSite ==
  \/ ResolveStaticDirs /\ StaticOnly
  \/ \E req \in Requests : ServeRequest(req) /\ StaticOnly

SpecStaticSite == InitStaticSite /\ [][NextStaticSite]_vars

\* ------------------------------------- Part IX: project type detection

\* The two source files that define detectProjectType.
Detectors == {"projectDetection.ts", "part_004"}

\* A file of the list: its path, and the extension its path ends with.
File(path, ext) == [path |-> path, ext |-> ext]

\* The files a list of the model may hold.
ModelPaths ==
  { File("package.json", ".json"), File("api/package.json", ".json"),
    File("requirements.txt", ".txt"), File("Cargo.toml", ".toml"),
    File("go.mod", ".mod"), File("pom.xml", ".xml"),
    File("composer.json", ".json"), File("Gemfile", ""),
    File("src/Main.java", ".java"), File("app.csproj", ".csproj"),
    File("index.php", ".php"), File("lib/tool.rb", ".rb"),
    File("docs/index.html", ".html") }

\* filePaths.has(path)
Has(fs, path) == \E f \in fs : f.path = path

\* files.some((f) => f.path.endsWith(ext))
SomeEndsWith(fs, ext) == \E f \in fs : f.ext = ext

\* detectProjectType of src/src/utils/projectDetection.ts
detectProjectType_ts(fs) ==
  IF Has(fs, "package.json") THEN "nodejs"
  ELSE IF \/ Has(fs, "requirements.txt") \/ Has(fs, "setup.py")
          \/ Has(fs, "pyproject.toml") \/ Has(fs, "Pipfile") THEN "python"
  ELSE IF Has(fs, "Cargo.toml") THEN "rust"
  ELSE IF Has(fs, "go.mod") THEN "go"
  ELSE IF SomeEndsWith(fs, ".html") THEN "static"
  ELSE "other"

\* detectProjectType of src/unnamed/part_004
detectProjectType_part004(fs) ==
  IF Has(fs, "package.json") THEN "nodejs"
  ELSE IF \/ Has(fs, "pom.xml") \/ Has(fs, "build.gradle") \/ Has(fs, "build.gradle.kts")
          \/ Has(fs, "settings.gradle") \/ Has(fs, "settings.gradle.kts")
          \/ SomeEndsWith(fs, ".java") THEN "java"
  ELSE IF \/ SomeEndsWith(fs, ".csproj") \/ SomeEndsWith(fs, ".sln")
          \/ SomeEndsWith(fs, ".fsproj") THEN "dotnet"
  ELSE IF \/ Has(fs, "requirements.txt") \/ Has(fs, "setup.py")
          \/ Has(fs, "pyproject.toml") \/ Has(fs, "Pipfile") THEN "python"
  ELSE IF Has(fs, "Cargo.toml") THEN "rust"
  ELSE IF Has(fs, "go.mod") THEN "go"
  ELSE IF Has(fs, "composer.json") \/ SomeEndsWith(fs, ".php") THEN "php"
  ELSE IF \/ Has(fs, "Gemfile") \/ Has(fs, "Rakefile")
          \/ SomeEndsWith(fs, ".rb") THEN "ruby"
  ELSE IF SomeEndsWith(fs, ".html") THEN "static"
  ELSE "other"

detectProjectType(source, fs) ==
  IF source = "part_004" THEN detectProjectType_part004(fs) ELSE detectProjectType_ts(fs)

InitDetect ==
  /\ variant = "webcontainer.ts"
  /\ InitBoot
  /\ NoRun
  /\ initialState
  /\ backs = <<>>
  /\ cmd = NoCommand
  /\ launch = 1
  /\ timerLaunch = 0
  /\ expiries = <<>>
  /\ tree = [dir \in {"."} |-> [exists |-> TRUE, files |-> {}]]
  /\ uniqueDirs = <<>>
  /\ request = NoRequest
  /\ response = NotFound
  /\ NoManifestRead
  /\ NoTreeBuild
  /\ NoRelayRequest
  /\ NoBufferedOutput
  /\ NoEarlierRun
  /\ NoInterruptedBoot
  /\ detector \in Detectors
  /\ files \in SUBSET ModelPaths
  /\ detected = "none"

\* The step is one of the detection alone.
DetectOnly ==
  UNCHANGED <<bootVars, runVars, railwayVars, storeVars, commandVars, staticVars, manifestVars, treeVars, relayVars, bufferVars, listenerVars, teardownVars, timedVars>>

\* The application classifies the fetched file list.
Detect ==
  /\ detected = "none"
  /\ detected' = detectProjectType(detector, files)
  /\ UNCHANGED <<detector, files>>

NextDetect == Detect /\ DetectOnly

SpecDetect == InitDetect /\ [][NextDetect]_vars

\* --------------------- Part X: readPackageJson of railway-deploy/index.ts

\* The dependency names of the model. A name is in a manifest's dependencies
\* when the manifest gives it a non-empty version specification.
DependencyNames ==
  {"vite", "@vitejs/plugin-react", "next", "react-scripts", "@angular/core",
   "@vue/cli-service", "nuxt", "@remix-run/react", "astro", "express", "koa", "react"}

\* The manifests cat package.json may find: spawn may throw, cat may exit with
\* a non-zero code, the text may not parse, and a parsed manifest has its
\* dependencies and devDependencies.
PackageJsonFiles ==
  { [spawn |-> "throws", exitCode |-> 1, parses |-> FALSE,
     dependencies |-> {}, devDependencies |-> {}],
    [spawn |-> "ok", exitCode |-> 1, parses |-> FALSE,
     dependencies |-> {}, devDependencies |-> {}],
    [spawn |-> "ok", exitCode |-> 0, parses |-> FALSE,
     dependencies |-> {}, devDependencies |-> {}] } \cup
  { [spawn |-> "ok", exitCode |-> 0, parses |-> TRUE,
     dependencies |-> deps, devDependencies |-> dev] :
    deps \in SUBSET DependencyNames,
    dev \in {{}, {"vite"}, {"@vitejs/plugin-react"}, {"@angular/core"}, {"express"}} }

\* readPackageJson(container): null when spawn or JSON.parse throws or cat
\* fails, else the manifest with the framework of allDeps.
readPackageJson(file) ==
  IF file.spawn = "throws" THEN [state |-> "null", framework |-> ""]
  ELSE IF file.exitCode # 0 THEN [state |-> "null", framework |-> ""]
  ELSE IF ~file.parses THEN [state |-> "null", framework |-> ""]
  ELSE LET allDeps == file.dependencies \cup file.devDependencies
       IN  [state |-> "info", framework |-> DetectFramework(allDeps)]

InitManifest ==
  /\ variant = "railway-deploy/index.ts"
  /\ InitBoot
  /\ NoRun
  /\ portReadyTimeout = "none"
  /\ portEvents = 0
  /\ spawned = NoSpawn
  /\ initialState
  /\ backs = <<>>
  /\ cmd = NoCommand
  /\ launch = 1
  /\ timerLaunch = 0
  /\ expiries = <<>>
  /\ tree = [dir \in {"."} |-> [exists |-> TRUE, files |-> {}]]
  /\ uniqueDirs = <<>>
  /\ request = NoRequest
  /\ response = NotFound
  /\ NoDetection
  /\ NoInterruptedBoot
  /\ NoEarlierRun
  /\ NoBufferedOutput
  /\ NoRelayRequest
  /\ NoTreeBuild
  /\ packageJson \in PackageJsonFiles
  /\ packageJsonInfo = [state |-> "pending", framework |-> ""]

\* The step is one of readPackageJson alone.
ManifestOnly ==
  UNCHANGED <<bootVars, runVars, railwayVars, storeVars, commandVars, staticVars, detectVars, teardownVars, listenerVars, bufferVars, relayVars, treeVars,
              timedVars>>

\* readPackageJson is called and returns.
ReadPackageJson ==
  /\ packageJsonInfo.state = "pending"
  /\ packageJsonInfo' = readPackageJson(packageJson)
  /\ UNCHANGED packageJson

NextManifest == ReadPackageJson /\ ManifestOnly

SpecManifest == InitManifest /\ [][NextManifest]_vars

\* ------------------------ Part XI: buildFileSystemTree of github.ts

\* const batchSize
batchSize == 10

\* The entries of the repository listing of the model, in listing order: a
\* manifest, a directory entry, sources in nested directories, an image, and
\* a source in a directory named constructor.
FileAt(k) ==
  CASE k = 1 -> [path |-> <<"package.json">>, type |-> "blob", ext |-> "json"]
    [] k = 2 -> [path |-> <<"src">>, type |-> "tree", ext |-> ""]
    [] k = 3 -> [path |-> <<"src", "main.ts">>, type |-> "blob", ext |-> "ts"]
    [] k = 4 -> [path |-> <<"logo.png">>, type |-> "blob", ext |-> "png"]
    [] k = 5 -> [path |-> <<"src", "lib", "util.ts">>, type |-> "blob", ext |-> "ts"]
    [] k = 6 -> [path |-> <<"src", "constructor", "index.ts">>, type |-> "blob", ext |-> "ts"]
    [] OTHER -> [path |-> <<"src", "lib", "m" \o ToString(k) \o ".ts">>, type |-> "blob",
                 ext |-> "ts"]

\* shouldIncludeFile(path): the name is one always included or its extension
\* is a code extension.
shouldIncludeFile(f) ==
  \/ f.path[Len(f.path)] \in {"Dockerfile", "Makefile", "LICENSE", "README", "package.json"}
  \/ f.ext \in {"js", "ts", "tsx", "json", "html", "css", "md"}

\* files.filter((f) => f.type === "blob" && shouldIncludeFile(f.path))
RECURSIVE FilterBlobs(_)
FilterBlobs(fs) ==
  IF fs = <<>> THEN <<>>
  ELSE IF Head(fs).type = "blob" /\ shouldIncludeFile(Head(fs))
       THEN <<Head(fs)>> \o FilterBlobs(Tail(fs))
       ELSE FilterBlobs(Tail(fs))

blobFiles == FilterBlobs(repoFiles)

\* The property names every object inherits from Object.prototype: for these
\* current[part] is defined on an empty object, and has no directory.
InheritedNames == {"constructor", "toString", "valueOf", "hasOwnProperty", "__proto__"}

Directory(parts) == [path |-> parts, kind |-> "directory"]
FileEntry(parts) == [path |-> parts, kind |-> "file"]

\* The body of the try block after the fetch: the walk over parts creates the
\* missing directories and the file is assigned under its name. The walk
\* throws a TypeError when current has become undefined, which it does below a
\* part that names an inherited property.
InsertFile(t, parts) ==
  LET inherited == {j \in 1 .. Len(parts) - 1 : parts[j] \in InheritedNames}
      stop == IF inherited = {} THEN Len(parts)
              ELSE CHOOSE j \in inherited : \A h \in inherited : j <= h
      dirs == {Directory(SubSeq(parts, 1, j)) : j \in 1 .. stop - 1}
  IN  IF inherited = {}
      THEN [tree |-> (t \ {e \in t : e.path = parts}) \cup dirs \cup {FileEntry(parts)},
            threw |-> FALSE]
      ELSE [tree |-> t \cup dirs, threw |-> TRUE]

Settled(k) == fetched[k] \in {"ok", "failed"}

\* await Promise.all(batch.map(...)) has resolved for the batch before i.
BatchSettled_Never(i) == TRUE
BatchSettled(i) == \A k \in 1 .. i : Settled(k)

InitTree ==
  /\ variant = "webcontainer.ts"
  /\ InitBoot
  /\ NoRun
  /\ portReadyTimeout = "none"
  /\ portEvents = 0
  /\ spawned = NoSpawn
  /\ initialState
  /\ backs = <<>>
  /\ cmd = NoCommand
  /\ launch = 1
  /\ timerLaunch = 0
  /\ expiries = <<>>
  /\ tree = [dir \in {"."} |-> [exists |-> TRUE, files |-> {}]]
  /\ uniqueDirs = <<>>
  /\ request = NoRequest
  /\ response = NotFound
  /\ NoDetection
  /\ NoInterruptedBoot
  /\ NoEarlierRun
  /\ NoBufferedOutput
  /\ NoRelayRequest
  /\ NoManifestRead
  /\ repoFiles \in {[k \in 1 .. n |-> FileAt(k)] : n \in 0 .. MaxFiles}
  /\ fetched = [k \in 1 .. Len(blobFiles) |-> "unstarted"]
  /\ batchStart = 0
  /\ completed = 0
  /\ progress = <<>>
  /\ reports = [k \in 1 .. Len(blobFiles) |-> 0]
  /\ fileSystemTree = {}
  /\ built = FALSE

\* The step is one of buildFileSystemTree alone.
TreeOnly ==
  UNCHANGED <<bootVars, runVars, railwayVars, storeVars, commandVars, staticVars, detectVars, teardownVars, listenerVars, bufferVars, relayVars,
              manifestVars, timedVars>>

\* One iteration of the for loop up to its await: batch.map starts the fetch
\* of every file of the batch.
StartBatch ==
  /\ ~built
  /\ batchStart < Len(blobFiles)
  /\ BatchSettled(batchStart)
  /\ fetched' = [k \in DOMAIN fetched |->
                   IF k > batchStart /\ k <= batchStart + batchSize THEN "inflight"
                   ELSE fetched[k]]
  /\ batchStart' = batchStart + batchSize
  /\ UNCHANGED <<repoFiles, completed, progress, reports, fileSystemTree, built>>

\* The fetch of file k settles: a fetched file is put into the tree; whether
\* or not that worked, and after a failed fetch too, completed is incremented
\* and onProgress is called.
FetchSettles(k, ok) ==
  /\ fetched[k] = "inflight"
  /\ fetched' = [fetched EXCEPT ![k] = IF ok THEN "ok" ELSE "failed"]
  /\ fileSystemTree' = IF ok THEN InsertFile(fileSystemTree, blobFiles[k].path).tree
                        ELSE fileSystemTree
  /\ completed' = completed + 1
  /\ progress' = Append(progress, [current |-> completed + 1, total |-> Len(blobFiles)])
  /\ reports' = [reports EXCEPT ![k] = @ + 1]
  /\ UNCHANGED <<repoFiles, batchStart, built>>

\* The loop ends and the tree is returned.
ReturnTree ==
  /\ ~built
  /\ batchStart >= Len(blobFiles)
  /\ BatchSettled(Len(blobFiles))
  /\ built' = TRUE
  /\ UNCHANGED <<repoFiles, fetched, batchStart, completed, progress, reports, fileSystemTree>>

NextTree ==
  \/ StartBatch /\ TreeOnly
  \/ \E k \in DOMAIN fetched, ok \in BOOLEAN : FetchSettles(k, ok) /\ TreeOnly
  \/ ReturnTree /\ TreeOnly

SpecTree == InitTree /\ [][NextTree]_vars

\* ------------------- Part XII: the deploy relay of railway-deploy/index.ts

\* Names are sequences of characters; these are the characters of [a-zA-Z0-9]
\* that the names of the model use.
AlphaNumerics == {"a", "c", "e", "m", "p", "g", "i", "t", "Z", "0", "9"}

\* isValidGitHubName(name): /^[a-zA-Z0-9]([a-zA-Z0-9._-]*[a-zA-Z0-9])?$|^[a-zA-Z0-9]$/
\* on a name of 1 to 100 characters without "..".
isValidGitHubName(name) ==
  /\ Len(name) > 0
  /\ Len(name) <= 100
  /\ name[1] \in AlphaNumerics
  /\ name[Len(name)] \in AlphaNumerics
  /\ \A i \in DOMAIN name : name[i] \in AlphaNumerics \cup {".", "_", "-"}
  /\ ~\E i \in 1 .. Len(name) - 1 : name[i] = "." /\ name[i + 1] = "."

\* repo.replace(/\.git$/, '')
CleanRepo(repo) ==
  IF Len(repo) >= 4 /\ SubSeq(repo, Len(repo) - 3, Len(repo)) = <<".", "g", "i", "t">>
  THEN SubSeq(repo, 1, Len(repo) - 4)
  ELSE repo

\* The owner and repository parts of the URLs of the model, as
\* /github\.com\/([^/]+)\/([^/]+)/ captures them.
Owners == { <<"a", "c", "m", "e">>, <<"-", "a">>, <<"a", ".", ".", "e">> }
Repos  == { <<"a", "p", "p">>, <<"a", "p", "p", ".", "g", "i", "t">>,
            <<"a", "p", "p", "?", "a">>, <<"a", ";", "m">> }

\* The requests of the model.
RelayRequests ==
  { [action |-> "create", given |-> FALSE, long |-> FALSE, host |-> "",
     owner |-> <<>>, repo |-> <<>>, projectId |-> FALSE],
    [action |-> "delete", given |-> FALSE, long |-> FALSE, host |-> "",
     owner |-> <<>>, repo |-> <<>>, projectId |-> FALSE],
    [action |-> "delete", given |-> FALSE, long |-> FALSE, host |-> "",
     owner |-> <<>>, repo |-> <<>>, projectId |-> TRUE],
    [action |-> "restart", given |-> FALSE, long |-> FALSE, host |-> "",
     owner |-> <<>>, repo |-> <<>>, projectId |-> FALSE] } \cup
  { [action |-> "create", given |-> TRUE, long |-> long, host |-> host,
     owner |-> owner, repo |-> repo, projectId |-> FALSE] :
    long \in BOOLEAN, host \in {"github.com", "gitlab.com"},
    owner \in Owners, repo \in Repos }

\* The messages of the errors the third-party API answers with.
UpstreamErrors ==
  { "Unauthorized", "Team not found or not accessible", "Repository acme/app not found",
    "Project limit exceeded for plan hobby", "Problem processing request" }

\* The texts the relay itself words.
FixedErrors ==
  { "Railway API token not configured", "GitHub URL is required", "Invalid GitHub URL",
    "Invalid GitHub URL format", "Invalid GitHub owner or repository name",
    "Railway workspace ID not configured", "projectId is required", "Invalid action" }

\* The test of graphqlRequest for an authentication error: the message holds
\* unauthorized, forbidden or authentication, in any case.
IsAuthError(msg) == msg \in {"Unauthorized"}

\* errMsg.toLowerCase().includes('workspace') || ...includes('team')
IsWorkspaceError(msg) == msg \in {"Team not found or not accessible"}

Responded == 9

\* The number of graphqlRequest calls an action makes.
LastStep(action) == IF action = "create" THEN 4 ELSE 1

Reply(status, error) == [status |-> status, error |-> error]

InitRelay ==
  /\ variant = "railway-deploy/index.ts"
  /\ InitBoot
  /\ NoRun
  /\ portReadyTimeout = "none"
  /\ portEvents = 0
  /\ spawned = NoSpawn
  /\ initialState
  /\ backs = <<>>
  /\ cmd = NoCommand
  /\ launch = 1
  /\ timerLaunch = 0
  /\ expiries = <<>>
  /\ tree = [dir \in {"."} |-> [exists |-> TRUE, files |-> {}]]
  /\ uniqueDirs = <<>>
  /\ request = NoRequest
  /\ response = NotFound
  /\ NoDetection
  /\ NoInterruptedBoot
  /\ NoEarlierRun
  /\ NoBufferedOutput
  /\ NoManifestRead
  /\ NoTreeBuild
  /\ env \in [railwayToken : BOOLEAN, workspaceId : BOOLEAN]
  /\ body \in RelayRequests
  /\ relayStep = 0
  /\ retried = FALSE
  /\ upstreamFetches = 0
  /\ relayResponse = Reply(0, "")

\* The step is one of the deploy relay alone.
RelayOnly ==
  UNCHANGED <<bootVars, runVars, railwayVars, storeVars, commandVars, staticVars, detectVars, teardownVars, listenerVars, bufferVars,
              manifestVars, treeVars, timedVars>>

\* The response to a request the relay answers without an upstream request,
\* status 0 when it goes on to the first graphqlRequest.
EarlyResponse ==
  IF ~env.railwayToken THEN Reply(500, "Railway API token not configured")
  ELSE IF body.action = "create"
  THEN IF ~body.given THEN Reply(400, "GitHub URL is required")
       ELSE IF body.long THEN Reply(400, "Invalid GitHub URL")
       ELSE IF body.host # "github.com" THEN Reply(400, "Invalid GitHub URL format")
       ELSE IF ~isValidGitHubName(body.owner) \/ ~isValidGitHubName(CleanRepo(body.repo))
       THEN Reply(400, "Invalid GitHub owner or repository name")
       ELSE IF ~env.workspaceId THEN Reply(400, "Railway workspace ID not configured")
       ELSE Reply(0, "")
  ELSE IF body.action = "delete"
  THEN IF ~body.projectId THEN Reply(400, "projectId is required") ELSE Reply(0, "")
  ELSE Reply(400, "Invalid action")

\* serve: the request arrives and is answered at once or passed on.
Serve ==
  /\ relayStep = 0
  /\ IF EarlyResponse.status # 0
     THEN /\ relayResponse' = EarlyResponse
          /\ relayStep' = Responded
          /\ UNCHANGED upstreamFetches
     ELSE /\ relayStep' = 1
          /\ upstreamFetches' = upstreamFetches + 1
          /\ UNCHANGED relayResponse
  /\ UNCHANGED <<env, body, retried>>

\* The catch of the create case around projectCreate, and the catch of serve.
ErrorResponse(step, msg) ==
  IF body.action = "create" /\ step = 1 /\ IsWorkspaceError(msg)
  THEN Reply(400, "Cannot access workspace. Error: " \o msg)
  ELSE Reply(500, msg)

\* The third-party API answers the awaited request with data.
UpstreamData ==
  /\ relayStep \in 1 .. 4
  /\ retried' = FALSE
  /\ IF relayStep = LastStep(body.action)
     THEN /\ relayResponse' = Reply(200, "")
          /\ relayStep' = Responded
          /\ UNCHANGED upstreamFetches
     ELSE /\ relayStep' = relayStep + 1
          /\ upstreamFetches' = upstreamFetches + 1
          /\ UNCHANGED relayResponse
  /\ UNCHANGED <<env, body>>

\* The third-party API answers the awaited fetch with errors: after an
\* authentication error of the first fetch graphqlRequest fetches again with
\* the team header; otherwise it throws the first message, and the relay
\* answers with it.
UpstreamFails(msg) ==
  /\ relayStep \in 1 .. 4
  /\ IF IsAuthError(msg) /\ ~retried
     THEN /\ retried' = TRUE
          /\ upstreamFetches' = upstreamFetches + 1
          /\ UNCHANGED <<relayStep, relayResponse>>
     ELSE /\ relayResponse' = ErrorResponse(relayStep, msg)
          /\ relayStep' = Responded
          /\ retried' = FALSE
          /\ UNCHANGED upstreamFetches
  /\ UNCHANGED <<env, body>>

NextRelay ==
  \/ Serve /\ RelayOnly
  \/ UpstreamData /\ RelayOnly
  \/ \E msg \in UpstreamErrors : UpstreamFails(msg) /\ RelayOnly

SpecRelay == InitRelay /\ [][NextRelay]_vars

\* ------------------- Part XIII: createBufferedOutput of webcontainer.ts

\* The chunks a caller writes; the empty string is one of them.
WrittenChunks == {"", "a", "b"}

InitBuffer ==
  /\ variant = "webcontainer.ts"
  /\ InitBoot
  /\ NoRun
  /\ portReadyTimeout = "none"
  /\ portEvents = 0
  /\ spawned = NoSpawn
  /\ initialState
  /\ backs = <<>>
  /\ cmd = NoCommand
  /\ launch = 1
  /\ timerLaunch = 0
  /\ expiries = <<>>
  /\ tree = [dir \in {"."} |-> [exists |-> TRUE, files |-> {}]]
  /\ uniqueDirs = <<>>
  /\ request = NoRequest
  /\ response = NotFound
  /\ NoDetection
  /\ NoInterruptedBoot
  /\ NoEarlierRun
  /\ NoManifestRead
  /\ NoTreeBuild
  /\ NoRelayRequest
  /\ NoBufferedOutput

\* The step is one of the buffered output alone.
BufferOnly ==
  UNCHANGED <<bootVars, runVars, railwayVars, storeVars, commandVars, staticVars, detectVars, teardownVars, listenerVars,
              manifestVars, treeVars, relayVars, timedVars>>

\* if (!timer) timer = setTimeout(flush, flushMs): the stored id after write().
TimerAfterWrite_Never(stored, fresh) == stored
TimerAfterWrite(stored, fresh) == IF stored = NoTimer THEN fresh ELSE stored

\* write(chunk): the chunk is added to the buffer and a flush timer is armed
\* unless one is stored.
WriteChunk(chunk) ==
  /\ Len(writes) < MaxWrites
  /\ writes' = Append(writes, chunk)
  /\ buffer' = buffer \o chunk
  /\ timer' = TimerAfterWrite(timer, Len(writes) + 1)
  /\ pendingFlushes' = IF timer' # timer THEN pendingFlushes \cup {timer'} ELSE pendingFlushes
  /\ UNCHANGED outputs

\* The body of flush(): the stored timer is cleared, and a non-empty buffer is
\* passed to the callback and emptied.
FlushBody(pending) ==
  /\ pendingFlushes' = pending \ {timer}
  /\ timer' = NoTimer
  /\ outputs' = IF buffer # "" THEN Append(outputs, buffer) ELSE outputs
  /\ buffer' = ""
  /\ UNCHANGED writes

\* The caller calls flush().
FlushCalled ==
  /\ (timer # NoTimer \/ buffer # "")
  /\ FlushBody(pendingFlushes)

\* A pending flush timer fires and runs flush.
FlushTimerFires(id) ==
  /\ id \in pendingFlushes
  /\ FlushBody(pendingFlushes \ {id})

NextBuffer ==
  \/ \E chunk \in WrittenChunks : WriteChunk(chunk) /\ BufferOnly
  \/ FlushCalled /\ BufferOnly
  \/ \E id \in 1 .. MaxWrites + 1 : FlushTimerFires(id) /\ BufferOnly

\* The event loop runs every timer that is due.
SpecBuffer ==
  /\ InitBuffer
  /\ [][NextBuffer]_vars
  /\ WF_vars(\E id \in 1 .. MaxWrites + 1 : FlushTimerFires(id) /\ BufferOnly)

\* ------------------------------------------------------ claims C1 .. C6

\* C1 as stated: every group of bootWebContainer() calls served by one boot
\* promise caused exactly one underlying WebContainer.boot() call, and all of
\* its callers received the same handle.
C1_ExactlyOneUnderlyingBoot ==
  \A ch \in DOMAIN chains :
    /\ Cardinality(BootsOf(ch)) = 1
    /\ \A c \in CallsOf(ch) : calls[c].handle = chains[ch].handle

\* C1 amended: the calls issued while no handle exists and before the first
\* settles share one attemptBoot() chain: one caller started it, no second
\* chain is in flight beside it, its underlying boots are one per attempt
\* (one when no attempt failed, never more than the retry limit), and every
\* caller receives the outcome of the chain, the same handle or the same error.
C1_FanIn ==
  /\ Cardinality({ch \in DOMAIN chains : chains[ch].state = "pending"}) <= 1
  /\ \A ch \in DOMAIN chains :
       /\ Cardinality({c \in CallsOf(ch) : calls[c].role = "owner"}) = 1
       /\ Cardinality(BootsOf(ch)) = chains[ch].attempt
       /\ chains[ch].attempt <= RetryLimit
       /\ (chains[ch].failures = <<>> => Cardinality(BootsOf(ch)) = 1)
       /\ \A c \in CallsOf(ch) :
            /\ calls[c].state = chains[ch].state
            /\ calls[c].handle = chains[ch].handle
            /\ calls[c].error = chains[ch].error

\* Two callers were served by one chain that needed a retry, and both hold its handle.
C1_Witness ==
  \E ch \in DOMAIN chains :
    /\ chains[ch].state = "fulfilled"
    /\ chains[ch].attempt >= 2
    /\ Cardinality(CallsOf(ch)) >= 2
    /\ \A c \in CallsOf(ch) : calls[c].handle = chains[ch].handle

\* C2: at most one sandbox handle is live at any time.
C2_AtMostOneLiveHandle == Cardinality(live) <= 1

\* C3: when bootWebContainer() fails, bootPromise is cleared and no handle is
\* stored, and a bootWebContainer() call made while neither is set starts a
\* fresh chain with a new underlying boot.
C3_FailureClearsMarker ==
  [][ /\ (\E ch \in DOMAIN chains :
             chains[ch].state = "pending" /\ chains'[ch].state = "rejected")
          => (bootPromise' = NoPromise /\ webcontainerInstance' = NoHandle)
      /\ ( /\ Len(calls') = Len(calls) + 1
           /\ webcontainerInstance = NoHandle
           /\ chains # <<>>
           /\ chains[Len(chains)].state = "rejected" )
          => /\ calls'[Len(calls')].role = "owner"
             /\ calls'[Len(calls')].state = "pending"
             /\ Len(boots') = Len(boots) + 1
             /\ bootPromise' = Len(chains')
             /\ chains'[bootPromise'].state = "pending"
    ]_vars

\* A boot failed and a later call started a fresh chain.
C3_Witness ==
  /\ Len(chains) >= 2
  /\ chains[1].state = "rejected"
  /\ calls[Len(calls)].role = "owner"
  /\ calls[Len(calls)].chain = Len(chains)

\* C4: a chain makes at most three attempts, every retry follows an attempt
\* that failed with a timed-out error, and a chain whose last permitted attempt
\* failed is rejected with the fatal boot-timed-out error, as is every caller.
C4_BoundedRetry ==
  \A ch \in DOMAIN chains :
    /\ Cardinality(BootsOf(ch)) <= 3
    /\ chains[ch].attempt <= RetryLimit
    /\ \A i \in 1 .. (chains[ch].attempt - 1) : IncludesTimedOut(chains[ch].failures[i])
    /\ (Len(chains[ch].failures) >= chains[ch].attempt) <=> (chains[ch].state = "rejected")
    /\ chains[ch].state = "rejected" =>
         /\ chains[ch].error = FatalBootError
         /\ \A c \in CallsOf(ch) : calls[c].state = "rejected" /\ calls[c].error = FatalBootError
         /\ chains[ch].attempt = RetryLimit
            \/ ~IncludesTimedOut(chains[ch].failures[chains[ch].attempt])

\* In webcontainer.ts a chain was rejected after its third attempt timed out.
C4_Witness ==
  /\ variant = "webcontainer.ts"
  /\ \E ch \in DOMAIN chains :
       /\ chains[ch].state = "rejected"
       /\ chains[ch].attempt = 3
       /\ chains[ch].failures[3] = TimerError

\* C5: a bootWebContainer() call made while a handle is stored returns that
\* handle, starts no underlying boot and changes neither webcontainerInstance
\* nor bootPromise.
C5_ExistingHandleReturned ==
  [][ (Len(calls') = Len(calls) + 1 /\ webcontainerInstance # NoHandle)
      => /\ calls'[Len(calls')].state = "fulfilled"
         /\ calls'[Len(calls')].handle = webcontainerInstance
         /\ UNCHANGED <<webcontainerInstance, bootPromise, boots, chains>>
    ]_vars

\* A call was answered with the stored handle.
C5_Witness ==
  \E c \in DOMAIN calls : calls[c].role = "existing" /\ calls[c].handle = webcontainerInstance

\* C6: a teardownWebContainer() with a handle stored calls that handle's
\* teardown once, clears handle and boot promise and resets the Execution
\* Timer; with no handle stored it releases nothing and leaves handle and boot
\* promise as they were.
C6_TeardownResets ==
  [][ teardowns' # teardowns
      => IF webcontainerInstance # NoHandle
         THEN /\ Len(teardownLog') = Len(teardownLog) + 1
              /\ teardownLog'[Len(teardownLog')].handle = webcontainerInstance
              /\ \A i \in DOMAIN teardownLog : teardownLog[i].handle # webcontainerInstance
              /\ webcontainerInstance' = NoHandle
              /\ bootPromise' = NoPromise
              /\ executionTimer' = NoTimer
              /\ armedTimers' = {}
         ELSE UNCHANGED <<teardownLog, live, webcontainerInstance, bootPromise>>
    ]_vars

\* A handle was released while the Execution Timer was armed, and all three are reset.
C6_Witness ==
  /\ teardownLog # <<>>
  /\ teardownLog[Len(teardownLog)].timer # NoTimer
  /\ webcontainerInstance = NoHandle
  /\ bootPromise = NoPromise
  /\ executionTimer = NoTimer
  /\ armedTimers = {}

\* ------------------------------------------------------ claims C7 .. C10

\* The place of a status in the order booting < mounting < installing <
\* running < ready.
StatusRank(s) ==
  CASE s = "booting"    -> 1
    [] s = "mounting"   -> 2
    [] s = "installing" -> 3
    [] s = "running"    -> 4
    [] s = "ready"      -> 5
    [] OTHER            -> 0

\* C7: the status values delivered in one run, error aside, never move
\* backwards in the order booting < mounting < installing < running < ready.
C7_StatusMonotonic ==
  \A i, j \in DOMAIN cb :
    ( /\ i < j
      /\ cb[i].k = "status" /\ cb[i].v # "error"
      /\ cb[j].k = "status" /\ cb[j].v # "error" )
      => StatusRank(cb[i].v) <= StatusRank(cb[j].v)

\* C8: error is terminal within a run: after onStatusChange("error") no
\* onStatusChange with another value and no onServerReady is delivered.
C8_ErrorTerminal ==
  \A i, j \in DOMAIN cb :
    (i < j /\ cb[i] = Status("error"))
      => /\ cb[j].k # "ready"
         /\ ~(cb[j].k = "status" /\ cb[j].v # "error")

\* C9: readiness resolves at most once in a run: onServerReady and
\* onStatusChange("ready") are each delivered at most once, the latch is set
\* exactly when a URL was reported, and the log of a run only grows, so a
\* reported URL is never replaced.
C9_ReadyOnce ==
  /\ Cardinality({i \in DOMAIN cb : cb[i].k = "ready"}) <= 1
  /\ Cardinality({i \in DOMAIN cb : cb[i] = Status("ready")}) <= 1
  /\ Runnable => (serverReadyFired <=> \E i \in DOMAIN cb : cb[i].k = "ready")

\* Two server-ready events with different URLs arrived and the first is the one reported.
C9_Witness ==
  /\ Len(events) = 2
  /\ events[1] # events[2]
  /\ \E i \in DOMAIN cb : cb[i] = ReadyCb(events[1])
  /\ \A i \in DOMAIN cb : cb[i] # ReadyCb(events[2])

\* C10: a server-ready event delivered while a fallback grace timer is pending
\* and no readiness signal has fired is reported with its own URL, and once an
\* event's URL is reported neither the fallback warning nor a synthesized
\* localhost URL is delivered.
C10_EventWinsRace ==
  [][ /\ (Len(events') = Len(events) + 1 /\ graceTimers # <<>> /\ ~serverReadyFired)
         => cb' = cb \o <<ReadyCb(events'[Len(events')]), Status("ready")>>
      /\ (\E i \in DOMAIN cb' : cb'[i].k = "ready" /\ cb'[i].v \in EventUrls)
         => \A j \in DOMAIN cb' :
              /\ cb'[j] # Output("fallback warning")
              /\ ~(cb'[j].k = "ready" /\ cb'[j].v \in LocalhostUrls)
    ]_vars

\* The event arrived during the grace period: its URL is reported, the grace
\* timer has fired since, and no fallback was delivered.
C10_Witness ==
  /\ Len(events) = 1
  /\ graceFired >= 1
  /\ \E i \in DOMAIN cb : cb[i] = ReadyCb(events[1])
  /\ \A j \in DOMAIN cb : cb[j] # Output("fallback warning") /\ cb[j].v \notin LocalhostUrls

\* ------------------------------------------------------ claims C11 .. C20

\* The number of onError callbacks, and of onStatusChange("error"), in a log.
ErrorCount(log) == Cardinality({i \in DOMAIN log : log[i].k = "error"})
ErrorStatusCount(log) == Cardinality({i \in DOMAIN log : log[i] = Status("error")})

\* C11: every fatal failure of a run (the workflow ends without readiness, or
\* the run process fails before readiness) delivers onError exactly once
\* together with status error; onError is never delivered twice in a run and
\* never without status error.
C11_ErrorOnce ==
  [][ /\ ErrorCount(cb') <= 1
      /\ ErrorCount(cb') = ErrorStatusCount(cb')
      /\ ( \/ (pc # "done" /\ pc' = "done" /\ cb'[Len(cb')] # Status("ready"))
           \/ (proc = "running" /\ proc' = "failed" /\ ~serverReadyFired) )
         => /\ ErrorCount(cb) = 0
            /\ ErrorCount(cb') = 1
    ]_vars

\* The run process failed before readiness, and the one error of the run is its report.
C11_Witness ==
  /\ proc = "failed"
  /\ ErrorCount(cb) = 1
  /\ cb[Len(cb)] = Status("error")
  /\ cb[Len(cb) - 1].k = "error"

\* C12: the exit of the run process is reported (onError, then status error)
\* exactly when its code is non-zero and no readiness signal fired before it;
\* any other exit delivers no callback.
C12_ExitFatalIffNotReady ==
  [][ (proc = "running" /\ proc' # "running")
      => IF proc' = "failed" /\ ~serverReadyFired
         THEN /\ Len(cb') = Len(cb) + 2
              /\ SubSeq(cb', 1, Len(cb)) = cb
              /\ cb'[Len(cb) + 1].k = "error"
              /\ cb'[Len(cb) + 2] = Status("error")
         ELSE cb' = cb
    ]_vars

\* The run process failed after readiness had fired, and no error was delivered.
C12_Witness ==
  /\ proc = "failed"
  /\ serverReadyFired
  /\ ErrorCount(cb) = 0

\* C13: when the Execution Timer expires, the status of the run becomes idle
\* and the stored handle is released, whatever the status was.
C13_ExpiryEndsIdle ==
  [][ Len(expiries') > Len(expiries)
      => /\ LastStatus(cb') = "idle"
         /\ webcontainerInstance' = NoHandle
         /\ webcontainerInstance \notin live'
    ]_vars

\* C14: at most one Execution Timer is armed at any time, and an expiry while
\* a launch is in progress is that of the timer this launch armed.
C14_TimerOfThisLaunch ==
  /\ Cardinality(armedTimers) <= 1
  /\ \A i \in DOMAIN expiries :
       expiries[i].phase # "idle" => expiries[i].armedBy = expiries[i].during

\* C15: every teardownWebContainer() call, by the workspace or by the
\* Execution Timer, leaves no timer armed in the step that releases the handle;
\* only the stored handle is released, it was live, and no handle is released
\* twice, so an expiry never reaches a handle that was released before.
C15_TimerClearedWithRelease ==
  [][ /\ teardowns' # teardowns
         => /\ armedTimers' = {}
            /\ executionTimer' = NoTimer
            /\ webcontainerInstance # NoHandle => webcontainerInstance \in live
      /\ \A i, j \in DOMAIN teardownLog' :
           i # j => teardownLog'[i].handle # teardownLog'[j].handle
    ]_vars

\* A teardown that found the Execution Timer armed released a handle, a later
\* one released a second handle, and neither a timer nor a handle is left.
C15_Witness ==
  /\ variant = "part_001"
  /\ Len(teardownLog) = 2
  /\ teardownLog[1].timer # NoTimer
  /\ armedTimers = {}
  /\ live = {}

\* C16: after handleBack of the workspace, from any workflow state, the handle
\* is released and the store is back at its initial values: as long as no
\* bootWebContainer() call follows the last handleBack, no handle is stored,
\* the handle that handleBack found is not live, and the step of handleBack
\* leaves containerStatus idle, terminalOutput empty, previewUrl null,
\* projectInfo null and view landing.
C16_BackReleasesAndResets ==
  [][ /\ Len(backs') > Len(backs)
         => /\ webcontainerInstance \notin live'
            /\ containerStatus' = "idle"
            /\ terminalOutput' = <<>>
            /\ previewUrl' = "null"
            /\ projectInfo' = "null"
            /\ view' = "landing"
      /\ (Len(backs') > 0 /\ backs'[Len(backs')].calls = Len(calls'))
         => webcontainerInstance' = NoHandle
    ]_vars

\* C17: once teardownWebContainer() has released the handle a run works with,
\* no further callback (onOutput, onStatusChange, onServerReady, onError) of
\* that run is delivered, whatever timers of the run were pending.
C17_NoCallbackAfterTeardown ==
  \A i \in DOMAIN teardownLog :
    teardownLog[i].handle = container => Len(cb) = teardownLog[i].delivered

\* C18: a launched project whose manifest declares a dependency with an
\* SSH-style version spec (git+ssh://..., ssh://..., git@...) leaves the
\* preflight with status error, the unsupported-dependency error and its
\* terminal line, and ends there: status installing is never delivered, no
\* install or run command is started, and onError is delivered at most once.
C18_SshDependencyRejected ==
  [][ (/\ project.present
       /\ \E value \in project.specs :
            value \in {"git+ssh://git@github.com/acme/lib.git", "ssh://git.acme.io/lib.git",
                       "git@github.com:acme/lib.git"})
      => /\ pc = "preflight" /\ pc' # pc
            => /\ pc' = "done"
               /\ cb' = cb \o <<Status("error"),
                                ErrorCb("This project uses git+ssh dependencies"),
                                Output("unsupported dependency source")>>
         /\ \A i \in DOMAIN cb' : cb'[i] # Status("installing")
         /\ pc' \notin {"installing", "spawning", "serving"}
         /\ proc' = "none"
         /\ ErrorCount(cb') <= 1
    ]_vars

\* The project with a git@ dependency ended in the preflight with its one error.
C18_Witness ==
  /\ "git@github.com:acme/lib.git" \in project.specs
  /\ pc = "done"
  /\ Len(cb) = 5
  /\ cb[3] = Status("error")
  /\ cb[4] = ErrorCb("This project uses git+ssh dependencies")
  /\ ErrorCount(cb) = 1

\* C19: a run whose dependency install timed out has delivered exactly one
\* onError, the timeout message and not the message of a failed install,
\* followed by status error as its last callback; it is over, its run command
\* was never spawned, status running and ready were never delivered and no
\* readiness was reported.
C19_InstallTimeoutEndsRun ==
  (\E i \in DOMAIN cb : cb[i] = ErrorCb("Dependency installation timed out after 300s"))
  => /\ pc = "done"
     /\ ErrorCount(cb) = 1
     /\ cb[Len(cb)] = Status("error")
     /\ cb[Len(cb) - 1] = ErrorCb("Dependency installation timed out after 300s")
     /\ \A i \in DOMAIN cb :
          /\ cb[i] # ErrorCb("Dependency install failed")
          /\ cb[i] # Status("running")
          /\ cb[i] # Status("ready")
          /\ cb[i].k \in {"status", "error", "output"}
     /\ proc = "none"
     /\ ~serverReadyFired
     /\ events = <<>>

\* The install of a nodejs project timed out after status installing.
C19_Witness ==
  /\ project.type = "nodejs"
  /\ pc = "done"
  /\ Len(cb) >= 2
  /\ cb[Len(cb) - 1] = ErrorCb("Dependency installation timed out after 300s")
  /\ \E i \in DOMAIN cb : cb[i] = Status("installing")

\* C20: a runCommandWithTimeout call settles at most once and its outcome
\* never changes afterwards. When the deadline fires first, kill() is invoked
\* on the process and the call rejects with the timeout error that carries the
\* call's label and its timeout in rounded seconds. When the process exits
\* first, the call returns the exit code, the deadline is cancelled in the
\* same step, and kill() is never invoked, then or later.
C20_SettlesOnce ==
  [][ /\ cmd'.settled <= 1
      /\ cmd.state \in {"returned", "rejected"}
         => /\ cmd'.state = cmd.state
            /\ cmd'.result = cmd.result
            /\ cmd'.error = cmd.error
      /\ (cmd.state = "pending" /\ cmd'.kills > cmd.kills)
         => /\ cmd'.kills = 1
            /\ cmd'.proc = "killed"
            /\ cmd'.state = "rejected"
            /\ cmd'.error.error = "timed out"
            /\ cmd'.error.label =
                 (IF cmd.options.label = "undefined"
                  THEN "npm install --no-audit --no-fund" ELSE cmd.options.label)
            /\ cmd'.error.seconds \in {2, 300}
            /\ cmd'.error.seconds = 2 <=> cmd.options.timeoutMs = 1500
      /\ (cmd.state = "pending" /\ cmd.proc = "running" /\ cmd'.proc = "exited")
         => /\ cmd'.state = "returned"
            /\ cmd'.result = cmd'.exitCode
            /\ cmd'.result \in ExitCodes
            /\ ~cmd'.timeoutTimer
      /\ cmd'.state = "returned" => cmd'.kills = 0
      /\ cmd'.state \in {"returned", "rejected"}
         => ~cmd'.timeoutTimer /\ ~cmd'.noOutputHintTimer /\ ~cmd'.stallHintInterval
    ]_vars

\* The process exited first with code 1 after it had written output: the call
\* returned 1, the output was delivered, and neither the deadline nor kill()
\* is left.
C20_Witness ==
  /\ cmd.state = "returned"
  /\ cmd.result = 1
  /\ cmd.written = 2
  /\ cmd.delivered >= 1
  /\ cmd.buffer = 0
  /\ cmd.kills = 0
  /\ ~cmd.timeoutTimer

\* ------------------------------------------------------ claims C21 .. C30

\* The statuses delivered in log, in order.
RECURSIVE StatusesOf(_)
StatusesOf(log) ==
  IF log = <<>> THEN <<>>
  ELSE IF log[1].k = "status" THEN <<log[1].v>> \o StatusesOf(Tail(log))
  ELSE StatusesOf(Tail(log))

\* C21: a launch of a project kind other than nodejs and static only boots and
\* mounts: its statuses are a prefix of booting, mounting, ready, or end in
\* error after booting or after mounting; ready comes right after the
\* code-browsing-only notice; no command is spawned, the Execution Timer is
\* never started and onServerReady is never invoked.
C21_BrowseOnly ==
  project.type \notin {"nodejs", "static"}
  => /\ StatusesOf(cb) \in {<<>>, <<"booting">>, <<"booting", "mounting">>,
                            <<"booting", "mounting", "ready">>,
                            <<"booting", "error">>, <<"booting", "mounting", "error">>}
     /\ \A i \in DOMAIN cb :
          /\ cb[i].k # "ready"
          /\ cb[i] = Status("ready") => i > 1 /\ cb[i - 1] = Output("code browsing only")
          /\ cb[i] = Output("code browsing only") => i < Len(cb) /\ cb[i + 1] = Status("ready")
     /\ proc = "none"
     /\ pc \in {"idle", "booting", "mounting", "done"}
     /\ timerStarts = 0
     /\ armedTimers = {}
     /\ executionTimer = NoTimer
     /\ events = <<>>

\* A go project was mounted and is ready for browsing.
C21_Witness ==
  /\ project.type = "go"
  /\ pc = "done"
  /\ StatusesOf(cb) = <<"booting", "mounting", "ready">>
  /\ cb[Len(cb) - 1] = Output("code browsing only")

\* C22: a nodejs launch whose mounted tree has no package.json ends right after
\* the mount: the step after mounting delivers onError with the
\* not-a-Node.js-project message and status error and ends the run; onError is
\* delivered at most once, status installing and running are never delivered,
\* no command is spawned and the Execution Timer is never started.
C22_NoManifestFailsFast ==
  [][ (project.type = "nodejs" /\ ~project.present)
      => /\ (pc = "verifying" /\ pc' # pc)
            => /\ pc' = "done"
               /\ cb' = cb \o <<ErrorCb("This repository is not a Node.js project"),
                                Status("error")>>
         /\ ErrorCount(cb') <= 1
         /\ StatusesOf(cb') \in {<<>>, <<"booting">>, <<"booting", "mounting">>,
                                 <<"booting", "error">>, <<"booting", "mounting", "error">>}
         /\ pc' \in {"idle", "booting", "mounting", "verifying", "done"}
         /\ proc' = "none"
         /\ timerStarts' = 0
         /\ armedTimers' = {}
    ]_vars

\* The launch without package.json was mounted and ended with its one error.
C22_Witness ==
  /\ project.type = "nodejs"
  /\ ~project.present
  /\ pc = "done"
  /\ StatusesOf(cb) = <<"booting", "mounting", "error">>
  /\ cb[Len(cb) - 1] = ErrorCb("This repository is not a Node.js project")
  /\ timerStarts = 0

\* C23: a run that ended because its boot failed has delivered the onError
\* message of the failure's cause: the cross-origin-isolation message when
\* WebContainer.boot() failed for the missing SharedArrayBuffer, the generic
\* boot-failure message when it failed otherwise, and the boot-timeout message
\* when it timed out.
C23_BootMessageByCause ==
  (pc = "done" /\ myCall # 0 /\ calls[myCall].state = "rejected")
  => LET failures == chains[calls[myCall].chain].failures
         cause    == failures[Len(failures)]
     IN  cb[Len(cb) - 1] =
           ErrorCb(IF cause = "SharedArrayBuffer is not defined"
                   THEN "WebContainers require Cross-Origin-Isolation headers. Please ensure the server is configured correctly."
                   ELSE IF cause = "Unable to boot"
                   THEN "Failed to boot WebContainer. This feature requires a modern browser with WebAssembly support."
                   ELSE FatalBootError)

\* C24: for the manifest with scripts {dev, build} and the dependencies vite
\* and react, the framework is vite and findDevScript selects dev with the
\* host flag and no build; the run command is spawned as
\* npm run dev -- --host 0.0.0.0; and the first readiness signal, when it is a
\* server-ready event of the running command, delivers onServerReady with the
\* event's URL and completes the statuses booting, mounting, installing,
\* running, ready.
C24_ViteScenario ==
  [][ (project.present /\ project.scripts = {"dev", "build"} /\ project.deps = {"vite", "react"})
      => /\ DetectFramework(project.deps) = "vite"
         /\ RailwayFindDevScript(project) =
              [script |-> "dev", needsHostFlag |-> TRUE, buildFirst |-> FALSE]
         /\ pc' # "building"
         /\ proc' # "none" => spawned'.args = <<"run", "dev", "--", "--host", "0.0.0.0">>
         /\ (proc = "running" /\ ~serverReadyFired /\ Len(events') > Len(events))
            => /\ events'[Len(events')] # ""
               /\ cb' = cb \o <<ReadyCb(events'[Len(events')]), Status("ready")>>
               /\ StatusesOf(cb') = <<"booting", "mounting", "installing", "running", "ready">>
    ]_vars

\* The vite project is served: its run command carries the host flag and the
\* server-ready event of the command made it ready.
C24_Witness ==
  /\ project.deps = {"vite", "react"}
  /\ proc = "running"
  /\ spawned.args = <<"run", "dev", "--", "--host", "0.0.0.0">>
  /\ Len(events) = 1
  /\ StatusesOf(cb) = <<"booting", "mounting", "installing", "running", "ready">>
  /\ cb[Len(cb) - 1] = ReadyCb(events[1])

\* What C25 says of a launch: preview is selected with the host flag and a
\* build first; after the install the build runs before status running; a
\* failed build ends the run in error without status running; and the run
\* command, once spawned, is npm run preview.
BuildsThenPreviews ==
  /\ RailwayFindDevScript(project) =
       [script |-> "preview", needsHostFlag |-> TRUE, buildFirst |-> TRUE]
  /\ (pc = "installing" /\ pc' \notin {"installing", "returned"})
     => pc' = "building" /\ cb' = cb
  /\ pc' = "spawning" => pc \in {"building", "spawning"}
  /\ (pc = "building" /\ pc' # pc)
     => \/ pc' = "spawning" /\ cb' = Append(cb, Status("running"))
        \/ /\ pc' = "returned"
           /\ cb'[Len(cb')] = Status("error")
           /\ \A i \in DOMAIN cb' : cb'[i] # Status("running")
  /\ proc' # "none" => spawned'.args = <<"run", "preview", "--", "--host", "0.0.0.0">>

\* C25 as stated: every manifest of a vite or astro project with a build and a
\* preview script and neither dev nor start is run as a build followed by
\* npm run preview.
C25_PreviewAfterBuild ==
  [][ (/\ project.present
       /\ DetectFramework(project.deps) \in {"vite", "astro"}
       /\ {"build", "preview"} \subseteq project.scripts
       /\ project.scripts \cap {"dev", "start"} = {})
      => BuildsThenPreviews
    ]_vars

\* C25 amended: the same for the manifests that have none of the scripts the
\* framework's priority list ranks before preview (dev, start and, for vite,
\* serve).
C25_PreviewAfterBuildUnlessRanked ==
  [][ (/\ project.present
       /\ DetectFramework(project.deps) \in {"vite", "astro"}
       /\ {"build", "preview"} \subseteq project.scripts
       /\ project.scripts \cap {"dev", "start"} = {}
       /\ DetectFramework(project.deps) = "vite" => "serve" \notin project.scripts)
      => BuildsThenPreviews
    ]_vars

\* The astro project was built and its preview script is running.
C25_Witness ==
  /\ DetectFramework(project.deps) = "astro"
  /\ project.scripts = {"build", "preview", "lint"}
  /\ proc = "running"
  /\ spawned.args = <<"run", "preview", "--", "--host", "0.0.0.0">>
  /\ StatusesOf(cb) = <<"booting", "mounting", "installing", "running">>

\* C26: every run command is spawned with HOST and HOSTNAME set to 0.0.0.0,
\* and the run command of a project whose framework is vite or astro carries
\* the host-binding flag (-- --host 0.0.0.0), by whichever path findDevScript
\* found its script.
C26_HostBindingForced ==
  proc # "none"
  => /\ spawned.env = [HOST |-> "0.0.0.0", HOSTNAME |-> "0.0.0.0"]
     /\ DetectFramework(project.deps) \in {"vite", "astro"}
        => /\ Len(spawned.args) = 5
           /\ SubSeq(spawned.args, 3, 5) = <<"--", "--host", "0.0.0.0">>

\* C27: the resolved directory list has no duplicates, starts with the primary
\* root (the first candidate of possibleRoots that holds an index.html),
\* continues with the other existing directories, and for the tree in which
\* public and dist hold an index.html and the root holds none it is public,
\* dist, ".".
C27_StaticRootOrder ==
  uniqueDirs # <<>>
  => /\ \A i, j \in DOMAIN uniqueDirs : i # j => uniqueDirs[i] # uniqueDirs[j]
     /\ uniqueDirs[1] = findStaticRoot(tree)
     /\ {uniqueDirs[i] : i \in DOMAIN uniqueDirs} = {dir \in ModelDirs : HasDir(tree, dir)}
     /\ (/\ HasFile(tree, "public", "index.html")
         /\ HasFile(tree, "dist", "index.html")
         /\ ~HasFile(tree, ".", "index.html")
         /\ ~HasDir(tree, "assets"))
        => uniqueDirs = <<"public", "dist", ".">>

\* C28: a GET request that no directory's static handler serves is answered
\* with the index document of the primary root (the first directory of the
\* list) when its path has no extension and the primary root has an index
\* document, and with 404 when its path has an asset-like extension such as
\* .js; the fallback serves the index document of no other directory while the
\* primary root has one.
C28_SpaFallback ==
  (request # NoRequest /\ request.method = "GET" /\ response.by # "static")
  => /\ (ExtName(request) = "" /\ HasFile(tree, uniqueDirs[1], "index.html"))
        => response = [status |-> 200, dir |-> uniqueDirs[1], file |-> "index.html",
                       by |-> "fallback"]
     /\ ExtName(request) = ".js" => response.status = 404
     /\ (response.status = 200 /\ HasFile(tree, uniqueDirs[1], "index.html"))
        => response.dir = uniqueDirs[1]

\* GET /about found no file and got the index document of public, the primary
\* root, while dist holds an index document too.
C28_Witness ==
  /\ request = [method |-> "GET", name |-> "about", ext |-> ""]
  /\ response = [status |-> 200, dir |-> "public", file |-> "index.html", by |-> "fallback"]
  /\ uniqueDirs[1] = "public"
  /\ HasFile(tree, "dist", "index.html")

\* The kinds the loaded detectProjectType has rules for.
DetectedKinds(source) ==
  IF source = "part_004"
  THEN {"nodejs", "java", "dotnet", "python", "rust", "go", "php", "ruby"}
  ELSE {"nodejs", "python", "rust", "go"}

\* The kinds whose manifest-file rule matches the list, and the kinds whose
\* extension-based rule does.
ManifestKinds(source, fs) ==
  {kind \in DetectedKinds(source) :
     \/ kind = "nodejs" /\ Has(fs, "package.json")
     \/ kind = "java" /\ Has(fs, "pom.xml")
     \/ kind = "python" /\ Has(fs, "requirements.txt")
     \/ kind = "rust" /\ Has(fs, "Cargo.toml")
     \/ kind = "go" /\ Has(fs, "go.mod")
     \/ kind = "php" /\ Has(fs, "composer.json")
     \/ kind = "ruby" /\ Has(fs, "Gemfile")}

ExtensionKinds(source, fs) ==
  {kind \in DetectedKinds(source) \cap {"java", "dotnet", "php", "ruby"} :
     \/ kind = "java" /\ SomeEndsWith(fs, ".java")
     \/ kind = "dotnet" /\ SomeEndsWith(fs, ".csproj")
     \/ kind = "php" /\ SomeEndsWith(fs, ".php")
     \/ kind = "ruby" /\ SomeEndsWith(fs, ".rb")}

\* C29: the type returned is that of a matching manifest-file rule whenever one
\* matches (nodejs whenever the root holds package.json), else that of a
\* matching extension-based rule whenever one matches, else static for a list
\* with an .html file, else other.
C29_ManifestOutranksExtension ==
  detected # "none"
  => /\ Has(files, "package.json") => detected = "nodejs"
     /\ ManifestKinds(detector, files) # {} => detected \in ManifestKinds(detector, files)
     /\ (ManifestKinds(detector, files) = {} /\ ExtensionKinds(detector, files) # {})
        => detected \in ExtensionKinds(detector, files)
     /\ (ManifestKinds(detector, files) = {} /\ ExtensionKinds(detector, files) = {})
        => detected = IF SomeEndsWith(files, ".html") THEN "static" ELSE "other"

\* The port a chunk names: that of its host:port, else the N of its
\* "listening on port N", else none (0).
PortInChunk(data) ==
  IF data.host # "none" THEN data.hostPort ELSE data.listenPort

\* C30: when the fallback timer of a nodejs run reports the server, the URL it
\* reports has the port named by the chunk that armed the timer, and port 3000
\* only when that chunk names no port.
C30_FallbackReportsChunkPort ==
  [][ (/\ project.type = "nodejs"
       /\ graceFired' = graceFired + 1
       /\ ~serverReadyFired /\ serverReadyFired')
      => LET data == Head(graceTimers).data
             port == IF PortInChunk(data) # 0 THEN PortInChunk(data) ELSE DefaultPort
         IN  cb'[Len(cb') - 1] = ReadyCb(LocalhostUrl(port)) ]_vars

\* ------------------------------------------------------ claims C31 .. C40

\* C31: the step in which the stall timer fires changes neither the latch nor
\* the run process and delivers nothing but the hint, and the hint only while
\* the latch is open and the run process is running; a server-ready event that
\* finds the latch open after the timer has fired still delivers the URL and
\* ready.
C31_StallHintNonFatal ==
  [][ /\ (serverReadyTimeout = "armed" /\ serverReadyTimeout' = "fired")
         => /\ serverReadyFired' = serverReadyFired
            /\ proc' = proc
            /\ cb' \in {cb, Append(cb, Output("stall hint"))}
            /\ cb' # cb => (~serverReadyFired /\ proc = "running")
      /\ (serverReadyTimeout = "fired" /\ ~serverReadyFired /\ Len(events') = Len(events) + 1)
         => /\ serverReadyFired'
            /\ cb' = cb \o <<ReadyCb(events'[Len(events')]), Status("ready")>> ]_vars

\* The hint was printed and a later server-ready event made the run ready.
C31_Witness ==
  /\ serverReadyTimeout = "fired"
  /\ Len(cb) >= 3
  /\ cb[Len(cb) - 2] = Output("stall hint")
  /\ cb[Len(cb)] = Status("ready")
  /\ proc = "running"

\* The frameworks in their priority order, and the dependency names that
\* indicate each.
FrameworkPriority ==
  <<"vite", "next", "cra", "angular", "vue-cli", "nuxt", "remix", "astro", "express">>

Indicators(framework) ==
  CASE framework = "vite"    -> {"vite", "@vitejs/plugin-react", "@vitejs/plugin-vue"}
    [] framework = "next"    -> {"next"}
    [] framework = "cra"     -> {"react-scripts"}
    [] framework = "angular" -> {"@angular/core", "@angular/cli"}
    [] framework = "vue-cli" -> {"@vue/cli-service"}
    [] framework = "nuxt"    -> {"nuxt", "nuxt3"}
    [] framework = "remix"   -> {"@remix-run/react"}
    [] framework = "astro"   -> {"astro"}
    [] framework = "express" -> {"express", "koa", "fastify"}

BatchOf(k) == (k - 1) \div batchSize + 1

\* C33: at most batchSize fetches are in flight, and a fetch of a later batch
\* has started only when every fetch of the batches before it has settled.
C33_BoundedFetchConcurrency ==
  /\ Cardinality({k \in DOMAIN fetched : fetched[k] = "inflight"}) <= batchSize
  /\ \A k, h \in DOMAIN fetched :
       (fetched[k] # "unstarted" /\ BatchOf(h) < BatchOf(k)) => Settled(h)

\* A fetch of the second batch is in flight after a first batch of batchSize
\* fetches, some of which failed.
C33_Witness ==
  /\ Len(fetched) > batchSize
  /\ fetched[batchSize + 1] = "inflight"
  /\ \E k \in 1 .. batchSize : fetched[k] = "failed"
  /\ \E k \in 1 .. batchSize : fetched[k] = "ok"

\* The files of the tree, by their full paths.
FilesOf(t) == {e.path : e \in {x \in t : x.kind = "file"}}

\* C40: when buildFileSystemTree returns, onProgress has been called once for
\* each included file, with current running from 1 to total, and the files of
\* the tree are exactly the included files whose fetch succeeded, whatever the
\* order in which the fetches settled.
C40_ProgressAndTree ==
  built
  => /\ Len(progress) = Len(blobFiles)
     /\ \A i \in DOMAIN progress :
          progress[i] = [current |-> i, total |-> Len(blobFiles)]
     /\ \A k \in DOMAIN reports : reports[k] = 1
     /\ FilesOf(fileSystemTree) = {blobFiles[k].path : k \in {h \in DOMAIN fetched : fetched[h] = "ok"}}

\* C34: a create request whose owner or repository name is not well-formed is
\* answered with the invalid-name response with no fetch to the third-party
\* API, and the error text of every error response is one the relay words
\* itself, never the text of the upstream error.
C34_ValidatedAndSanitized ==
  relayStep = Responded
  => /\ (/\ env.railwayToken /\ body.action = "create" /\ body.given /\ ~body.long
         /\ body.host = "github.com"
         /\ (~isValidGitHubName(body.owner) \/ ~isValidGitHubName(CleanRepo(body.repo))))
        => /\ relayResponse = Reply(400, "Invalid GitHub owner or repository name")
           /\ upstreamFetches = 0
     /\ relayResponse.status >= 400 => relayResponse.error \in FixedErrors

\* The concatenation of a sequence of strings.
RECURSIVE Concat(_)
Concat(strings) ==
  IF strings = <<>> THEN "" ELSE Head(strings) \o Concat(Tail(strings))

\* C35: the strings delivered to the callback, followed by the buffer, always
\* concatenate to the chunks written, in write order; at most one flush timer
\* is pending; no delivered string is empty; and whatever is in the buffer is
\* eventually delivered.
C35_BufferedOutputLossless ==
  /\ [](/\ Concat(outputs) \o buffer = Concat(writes)
        /\ Cardinality(pendingFlushes) <= 1
        /\ \A i \in DOMAIN outputs : outputs[i] # "")
  /\ [](buffer # "" => <>(buffer = ""))

\* Two chunks written before the timer fired were delivered as one string, and
\* a third one is buffered with a new timer pending.
C35_Witness ==
  /\ writes = <<"a", "b", "a">>
  /\ outputs = <<"ab">>
  /\ buffer = "a"
  /\ Cardinality(pendingFlushes) = 1

\* ------------- Part XIV: runFullWorkflow launched again on the same handle

\* What the listeners of earlier launches deliver on server-ready with url, in
\* the order they were registered: each is handleServerReady of its own launch.
RECURSIVE EarlierDeliveries(_, _)
EarlierDeliveries(latches, url) ==
  IF latches = <<>> THEN <<>>
  ELSE (IF LatchBlocks(Head(latches)) THEN <<>> ELSE <<ReadyCb(url), Status("ready")>>)
       \o EarlierDeliveries(Tail(latches), url)

\* container.on("server-ready", ...) returns an unsubscribe function no launch
\* keeps: the listener of a launch stays on the handle when the launch is over.
ListenerKept(latches, fired) == Append(latches, fired)

\* The caller launches runFullWorkflow again, with no teardown, after the
\* earlier call returned and while the earlier launch has no timer pending.
Rerun ==
  /\ launch < MaxLaunches
  /\ pc \in {"done", "serving"}
  /\ graceTimers = <<>>
  /\ serverReadyTimeout # "armed"
  /\ launch' = launch + 1
  /\ earlierLatches' = IF pc = "serving" THEN ListenerKept(earlierLatches, serverReadyFired)
                       ELSE earlierLatches
  /\ project' \in Projects
  /\ pc' = "idle"
  /\ myCall' = 0
  /\ container' = NoHandle
  /\ cb' = <<>>
  /\ serverReadyFired' = FALSE
  /\ serverReadyTimeout' = "unset"
  /\ graceTimers' = <<>>
  /\ graceFired' = 0
  /\ proc' = "none"
  /\ chunks' = 0
  /\ events' = <<>>
  /\ UNCHANGED <<bootVars, earlierCb, timerLaunch, expiries>>

\* The sandbox emits server-ready with url: every listener on the handle is
\* called, those of earlier launches before the one of the launch in progress.
EmitServerReady(url) ==
  /\ ServerReadyEvent(url)
  /\ earlierCb' = earlierCb \o EarlierDeliveries(earlierLatches, url)
  /\ earlierLatches' = [i \in DOMAIN earlierLatches |-> TRUE]

\* The step involves the run and the listeners on the handle only.
RunAndListeners == UNCHANGED <<railwayVars, storeVars, commandVars, staticVars, detectVars, teardownVars, bufferVars, relayVars, treeVars, manifestVars>>

\* Launches of runFullWorkflow of webcontainer.ts on one handle.
NextRerun ==
  \/ Launch /\ NoPortListener
  \/ \E b \in DOMAIN boots : BootResolves(b) /\ NoWorkflow
  \/ \E ch \in DOMAIN chains : BootTimesOut(ch) /\ NoWorkflow
  \/ \E b \in DOMAIN boots, msg \in BootErrors : BootRejects(b, msg) /\ NoWorkflow
  \/ Booted /\ NoPortListener
  \/ BootFailed /\ NoPortListener
  \/ MountFails /\ NoPortListener
  \/ Mounted /\ NoPortListener
  \/ Preflight /\ NoPortListener
  \/ \E code \in ExitCodes : InstallExits(code) /\ NoPortListener
  \/ InstallThrows("Dependency installation timed out after 300s") /\ NoPortListener
  \/ SpawnFails /\ NoPortListener
  \/ Spawned /\ NoPortListener
  \/ StaticProbed /\ NoPortListener
  \/ StaticInstallThrows /\ NoPortListener
  \/ \E code \in ExitCodes : StaticInstallExits(code) /\ NoPortListener
  \/ \E data \in OutputChunks : Chunk(data) /\ NoPortListener
  \/ \E data \in OutputChunks : StaticChunk(data) /\ NoPortListener
  \/ GraceTimerFires /\ NoPortListener
  \/ StaticGraceTimerFires /\ NoPortListener
  \/ \E url \in EventUrls : EmitServerReady(url) /\ RunAndListeners /\ UNCHANGED timedVars
  \/ StallTimeoutFires /\ NoPortListener
  \/ \E code \in ExitCodes : ServerExits(code) /\ NoPortListener
  \/ Rerun /\ RunAndListeners

SpecRerun == InitRun /\ [][NextRerun]_vars

\* ------------------------ Part XV: teardownWebContainer() during a boot

\* The chains whose promise is pending.
PendingChains == {ch \in DOMAIN chains : chains[ch].state = "pending"}

\* teardownWebContainer() called by the workspace, the boots in flight at the
\* call being remembered.
TeardownCalled ==
  /\ teardownWebContainer
  /\ interrupted' = interrupted \cup PendingChains

\* The step involves the boot module and the remembered boots only.
BootAndTeardown == UNCHANGED <<runVars, railwayVars, storeVars, commandVars, staticVars, detectVars, listenerVars, bufferVars, relayVars, treeVars, manifestVars, timedVars>>

\* The calls of the boot module, a teardown being possible at any time.
NextInterrupt ==
  \/ ReturnExisting /\ NoWorkflow
  \/ JoinInFlight /\ NoWorkflow
  \/ StartBoot /\ NoWorkflow
  \/ \E b \in DOMAIN boots : BootResolves(b) /\ NoWorkflow
  \/ \E b \in DOMAIN boots : LateBootResolves(b) /\ NoWorkflow
  \/ \E ch \in DOMAIN chains : BootTimesOut(ch) /\ NoWorkflow
  \/ \E b \in DOMAIN boots, msg \in BootErrors : BootRejects(b, msg) /\ NoWorkflow
  \/ TeardownCalled /\ BootAndTeardown
  \/ startExecutionTimer /\ NoWorkflow
  \/ \E t \in armedTimers : ExecutionTimerExpires(t) /\ NoWorkflow

SpecInterrupt == InitModule /\ [][NextInterrupt]_vars

\* The run has delivered status ready or status error.
TerminalReached == \E i \in DOMAIN cb : cb[i] \in {Status("ready"), Status("error")}

\* C36: once a runCommandWithTimeout call has settled, its three timers are
\* cleared, no hint is written and kill() is not invoked; and once a run has
\* delivered ready or error, a step in which its stall timer or one of its
\* fallback grace timers fires delivers no callback.
C36_SiblingTimersCancelled ==
  [][ /\ cmd.state \in {"returned", "rejected"}
         => /\ ~cmd.timeoutTimer /\ ~cmd.noOutputHintTimer /\ ~cmd.stallHintInterval
            /\ cmd'.kills = cmd.kills
            /\ cmd'.hints = cmd.hints
      /\ (/\ TerminalReached
          /\ \/ graceFired' = graceFired + 1
             \/ (serverReadyTimeout = "armed" /\ serverReadyTimeout' = "fired"))
         => cb' = cb ]_vars

\* C37: when runFullWorkflow was launched again on the same handle, a
\* server-ready event is delivered by the launch in progress only: no listener
\* of an earlier launch delivers a callback, and the launch in progress
\* delivers onServerReady and status ready once unless its latch is set.
C37_NoListenerLeak ==
  [][ (launch > 1 /\ Len(events') = Len(events) + 1)
      => /\ earlierCb' = earlierCb
         /\ cb' = IF serverReadyFired THEN cb
                  ELSE cb \o <<ReadyCb(events'[Len(events')]), Status("ready")>> ]_vars

\* C38: when the boot of a chain that was pending at a teardownWebContainer()
\* call settles, no live handle is retained: webcontainerInstance and
\* bootPromise are null and the handle the boot produced is released.
C38_TeardownDuringBootNotLost ==
  [][ \A ch \in interrupted :
        (chains[ch].state = "pending" /\ chains'[ch].state # "pending")
        => /\ webcontainerInstance' = NoHandle
           /\ bootPromise' = NoPromise
           /\ chains'[ch].state = "fulfilled" => chains'[ch].handle \notin live' ]_vars

\* C39: in a run of a nodejs or static project, every delivered status ready
\* comes directly after an onServerReady(url) of the same run, which is the
\* only one delivered before it.
C39_ReadyImpliesUrl ==
  Runnable =>
    \A i \in DOMAIN cb :
      cb[i] = Status("ready")
      => /\ i > 1
         /\ cb[i - 1].k = "ready"
         /\ Cardinality({j \in 1 .. (i - 1) : cb[j].k = "ready"}) = 1

\* A static run became ready through its fallback timer.
C39_Witness ==
  /\ project.type = "static"
  /\ graceFired > 0
  /\ \E i \in DOMAIN cb : cb[i] = Status("ready")

====
